---- MODULE Spec2Model ----
(***************************************************************************)
(* Model of the marketing-helper backend (server.js and its later          *)
(* revision): the MCF path builder, the path aggregator, the threshold     *)
(* filter / ranker, the stored reports and the result endpoint, the        *)
(* conversion locators and the conversion-first job of the later           *)
(* revision, the contribution scorer, and the contribution batch job with  *)
(* its status endpoint, the paging of its listing, the closed-won stage    *)
(* cache, the retrying API call, and processContact called for one contact *)
(* by two callers at a time.                                               *)
(*                                                                         *)
(* Strings are sequences of one-character strings, so that trimming,       *)
(* upper-casing and joining are computed character by character.           *)
(* Timestamps are counted in hours (3 600 000 ms), so that a day is 24     *)
(* ticks and the 90-day lookback stays inside TLC's integers.              *)
(***************************************************************************)
EXTENDS Integers, Sequences, FiniteSets, Bags, TLC

VARIABLES
    pc,                  \* position of the harness / background job
    sourceHistory,       \* argument of buildConversionPath
    conversionTimestamp, \* argument of buildConversionPath
    lookbackDays,        \* argument of buildConversionPath (<<>> = not passed)
    path,                \* value returned by buildConversionPath
    mcfJobStatus,        \* mcfJobStatus[jobKey] of the one tenant modelled
    pathCounts,          \* buckets of the running MCF job, in insertion order
    totalConversions,    \* conversions counted by the running MCF job
    accumulated,         \* bag of the (path, value, currency) accumulated so far
    mcfResults,          \* the report the MCF run has written (<<>> = none)
    pipelineCache,       \* pipelineCache[portalId]: the stage ids (<<>> = none)
    historyEntries,      \* argument of computeMarketingContribution
    marketingSources,    \* argument of computeMarketingContribution
    contribution,        \* value returned by computeMarketingContribution
    jobStatus,           \* jobStatus[portalId] of the one tenant modelled (<<>> = none)
    portalConfig,        \* the tenant's entry of the portal config file
    now,                 \* the last time read from the clock
    batchRuns,           \* the background runs of the contribution batch in flight
    response,            \* the last response sent by a contribution endpoint
    apiReplies,          \* the statuses the API answers processContact's requests with
    contactResult,       \* what processContact did for the contact (<<>> = not called)
    crm,                 \* the CRM objects of the tenant and the lookups that fail
    conversions,         \* the located conversions the path loop has yet to visit
    processedContacts,   \* processedContacts of the conversion-first MCF job
    allResults,          \* the tenant's reports in the results file, by conversion type
    jobResult,           \* mcfJobStatus[jobKey].result (<<>> = none)
    mcfResponse,         \* the last request to GET /api/mcf/result and its response
    stageCache,          \* the timed entry pipelineCache[portalId] (<<>> = none)
    stageClock,          \* Date.now(), in half hours
    stageCall,          \* the last call of getClosedWonStageIds and what it did
    retryCall,          \* the call of hubspotApiWithRetry in progress (<<>> = none)
    scoredWith,         \* the marketing source sets the contacts of the last run started were scored with
    hsHistory,           \* the hs_latest_source history of the contact in the CRM
    storedPercent,       \* the contribution property of the contact in the CRM (<<>> = not set)
    workers,            \* the calls of processContact for the contact, in flight or ended
    listing              \* the paging state of the contribution batch run (<<>> = no run)

pathVars == <<sourceHistory, conversionTimestamp, lookbackDays, path>>

mcfVars == <<mcfJobStatus, pathCounts, totalConversions, accumulated, mcfResults,
            pipelineCache>>

contribVars == <<historyEntries, marketingSources, contribution>>

jobVars == <<jobStatus, portalConfig, now, batchRuns, response>>

callVars == <<apiReplies, contactResult>>

locVars == <<crm, conversions, processedContacts>>

resultVars == <<allResults, jobResult, mcfResponse>>

stageVars == <<stageCache, stageClock, stageCall>>

retryVars == <<retryCall>>

runVars == <<scoredWith>>

hookVars == <<hsHistory, storedPercent, workers>>

listVars == <<listing>>

vars == <<pc, pathVars, mcfVars, contribVars, jobVars, callVars, locVars, resultVars,
          stageVars, retryVars, runVars, hookVars, listVars>>

----------------------------------------------------------------------------
(* Bounds *)

MaxHist == 3             \* longest history drawn

MaxContacts == 3         \* contacts scanned by one MCF job

MaxBucket == 15          \* largest conversions count of a drawn bucket

MaxListed == 2           \* contacts listed for one contribution batch run

MaxClock == 2            \* last tick of the clock

MaxEvents == 2           \* meetings, deals or contacts a search returns

MaxStored == 1           \* largest conversions count of a bucket of the run read

----------------------------------------------------------------------------
(* Program constants *)

MCF_LOOKBACK_DAYS == 90

DayMs == 24              \* 24 * 60 * 60 * 1000 ms, in ticks of one hour

UNKNOWN == <<"U", "N", "K", "N", "O", "W", "N">>

----------------------------------------------------------------------------
(* JavaScript string and number primitives *)

\* String.prototype.toUpperCase, per character
UpperChar(c) ==
    CASE c = "a" -> "A"
      [] c = "b" -> "B"
      [] c = "c" -> "C"
      [] c = "d" -> "D"
      [] c = "e" -> "E"
      [] c = "h" -> "H"
      [] c = "i" -> "I"
      [] c = "p" -> "P"
      [] c = "r" -> "R"
      [] c = "s" -> "S"
      [] OTHER -> c

toUpperCase_identity(s) == s

toUpperCase(s) == [i \in 1..Len(s) |-> UpperChar(s[i])]

IsSpace(c) == c = " "

RECURSIVE TrimStart(_)
TrimStart(s) ==
    IF s # <<>> /\ IsSpace(Head(s)) THEN TrimStart(Tail(s)) ELSE s

RECURSIVE TrimEnd(_)
TrimEnd(s) ==
    IF s # <<>> /\ IsSpace(s[Len(s)]) THEN TrimEnd(SubSeq(s, 1, Len(s) - 1)) ELSE s

\* String.prototype.trim
trim(s) == TrimEnd(TrimStart(s))

\* Number(e.timestamp || 0): an absent timestamp (<<>>) reads as 0
TsNumber(e) == IF e.timestamp = <<>> THEN 0 ELSE e.timestamp[1]

\* String(e.value || "").trim().toUpperCase()
NormalizeValue(e) == toUpperCase(trim(e.value))

----------------------------------------------------------------------------
(* JavaScript Number arithmetic (IEEE-754 binary64, round to nearest, ties  *)
(* to even) on non-negative finite values.  A natural number is a          *)
(* little-endian sequence of limbs below Base without leading zero limbs;  *)
(* a Number is [m, s] standing for m * 2^(-s), with m odd or zero.         *)

Base == 2^15

LimbBits == 15

MantissaBits == 53

RECURSIVE Nat2Big(_)
Nat2Big(n) == IF n = 0 THEN <<>> ELSE <<n % Base>> \o Nat2Big(n \div Base)

RECURSIVE Big2Nat(_)
Big2Nat(a) == IF a = <<>> THEN 0 ELSE a[1] + Base * Big2Nat(Tail(a))

RECURSIVE StripZeroLimbs(_)
StripZeroLimbs(a) ==
    IF a # <<>> /\ a[Len(a)] = 0 THEN StripZeroLimbs(SubSeq(a, 1, Len(a) - 1)) ELSE a

RECURSIVE BigMulSmall(_, _, _)
BigMulSmall(a, k, carry) ==
    IF a = <<>> THEN Nat2Big(carry)
    ELSE LET t == a[1] * k + carry
         IN  <<t % Base>> \o BigMulSmall(Tail(a), k, t \div Base)

RECURSIVE BigAddCarry(_, _, _)
BigAddCarry(a, b, carry) ==
    IF a = <<>> /\ b = <<>> THEN Nat2Big(carry)
    ELSE LET x == IF a = <<>> THEN 0 ELSE a[1]
             y == IF b = <<>> THEN 0 ELSE b[1]
             t == x + y + carry
         IN  <<t % Base>> \o BigAddCarry(IF a = <<>> THEN a ELSE Tail(a),
                                         IF b = <<>> THEN b ELSE Tail(b),
                                         t \div Base)

BigAdd(a, b) == BigAddCarry(a, b, 0)

RECURSIVE BigMul(_, _)
BigMul(a, b) ==
    IF b = <<>> \/ a = <<>> THEN <<>>
    ELSE StripZeroLimbs(BigAdd(BigMulSmall(a, b[1], 0), <<0>> \o BigMul(a, Tail(b))))

\* long division by a small divisor, most significant limb first
RECURSIVE BigDivSmall(_, _)
BigDivSmall(a, d) ==
    IF a = <<>> THEN [q |-> <<>>, r |-> 0]
    ELSE LET hi == BigDivSmall(Tail(a), d)
             cur == hi.r * Base + a[1]
         IN  [q |-> StripZeroLimbs(<<cur \div d>> \o hi.q), r |-> cur % d]

\* a * 2^k
RECURSIVE BigShiftLeft(_, _)
BigShiftLeft(a, k) ==
    IF a = <<>> \/ k = 0 THEN a
    ELSE IF k >= LimbBits THEN <<0>> \o BigShiftLeft(a, k - LimbBits)
    ELSE StripZeroLimbs(BigMulSmall(a, 2^k, 0))

\* a div 2^k, with the last bit shifted out (guard) and whether any bit
\* shifted out before it was set (sticky)
RECURSIVE BigShiftRight(_, _, _)
BigShiftRight(a, k, sticky) ==
    IF k = 0 THEN [q |-> a, guard |-> 0, sticky |-> sticky]
    ELSE IF k = 1
         THEN LET d == BigDivSmall(a, 2)
              IN  [q |-> d.q, guard |-> d.r, sticky |-> sticky]
         ELSE LET c == IF k - 1 >= LimbBits - 1 THEN LimbBits - 1 ELSE k - 1
                  d == BigDivSmall(a, 2^c)
              IN  BigShiftRight(d.q, k - c, sticky \/ d.r # 0)

RECURSIVE SmallBitLen(_)
SmallBitLen(n) == IF n = 0 THEN 0 ELSE 1 + SmallBitLen(n \div 2)

BigBitLen(a) ==
    IF a = <<>> THEN 0 ELSE LimbBits * (Len(a) - 1) + SmallBitLen(a[Len(a)])

BigIsOdd(a) == a # <<>> /\ a[1] % 2 = 1

\* m * 2^(-s) with the trailing zero bits of m moved into s
RECURSIVE Canonical(_, _)
Canonical(m, s) ==
    IF m = <<>> THEN [m |-> <<>>, s |-> 0]
    ELSE IF BigIsOdd(m) THEN [m |-> m, s |-> s]
    ELSE Canonical(BigDivSmall(m, 2).q, s - 1)

\* the Number nearest to n * 2^(-s) (plus a non-zero tail below the last
\* bit of n when sticky): round to MantissaBits bits, ties to even
RoundToNumber_truncate(n, s, sticky) ==
    LET drop == BigBitLen(n) - MantissaBits
    IN  IF drop <= 0 THEN Canonical(n, s)
        ELSE Canonical(BigShiftRight(n, drop, sticky).q, s - drop)

RoundToNumber(n, s, sticky) ==
    LET drop == BigBitLen(n) - MantissaBits
    IN  IF drop <= 0 THEN Canonical(n, s)
        ELSE LET sh == BigShiftRight(n, drop, sticky)
                 up == sh.guard = 1 /\ (sh.sticky \/ BigIsOdd(sh.q))
             IN  Canonical(IF up THEN BigAdd(sh.q, <<1>>) ELSE sh.q, s - drop)

\* an integer as a Number
NumberOfInt(n) == Canonical(Nat2Big(n), 0)

\* the Number n / d for integers n >= 0, d > 0 (also the decimal literal
\* n/d read by parseFloat): correctly rounded quotient
NumberOfRatio(n, d) ==
    LET shift == MantissaBits + 2 + SmallBitLen(d)
        dv == BigDivSmall(BigShiftLeft(Nat2Big(n), shift), d)
    IN  RoundToNumber(dv.q, shift, dv.r # 0)

\* x * y
NumberMul(x, y) == RoundToNumber(BigMul(x.m, y.m), x.s + y.s, FALSE)

\* x + y
NumberAdd(x, y) ==
    LET s == IF x.s >= y.s THEN x.s ELSE y.s
    IN  IF y.m = <<>> THEN x
        ELSE IF x.m = <<>> THEN y
        ELSE RoundToNumber(BigAdd(BigShiftLeft(x.m, s - x.s), BigShiftLeft(y.m, s - y.s)),
                      s, FALSE)

\* Math.ceil(x), as an integer
MathCeil(x) ==
    IF x.s <= 0 THEN Big2Nat(BigShiftLeft(x.m, 0 - x.s))
    ELSE LET sh == BigShiftRight(x.m, x.s, FALSE)
         IN  Big2Nat(sh.q) + (IF sh.guard = 1 \/ sh.sticky THEN 1 ELSE 0)

\* Math.round(x), as an integer: halves round up
MathRound(x) ==
    IF x.s <= 0 THEN Big2Nat(BigShiftLeft(x.m, 0 - x.s))
    ELSE LET sh == BigShiftRight(x.m, x.s, FALSE)
         IN  Big2Nat(sh.q) + sh.guard

RECURSIVE BigLess(_, _)
BigLess(a, b) ==
    IF Len(a) # Len(b) THEN Len(a) < Len(b)
    ELSE IF a = <<>> THEN FALSE
    ELSE IF a[Len(a)] # b[Len(b)] THEN a[Len(a)] < b[Len(b)]
    ELSE BigLess(SubSeq(a, 1, Len(a) - 1), SubSeq(b, 1, Len(b) - 1))

\* x < y
NumberLess(x, y) ==
    LET s == IF x.s >= y.s THEN x.s ELSE y.s
    IN  BigLess(BigShiftLeft(x.m, s - x.s), BigShiftLeft(y.m, s - y.s))

\* Math.max(a, b) on integers
MathMax(a, b) == IF a >= b THEN a ELSE b

----------------------------------------------------------------------------
(* Array.prototype.sort with the comparator a.ts - b.ts: a stable sort.     *)
(* Array.prototype.filter is SelectSeq.                                     *)

\* position at which e goes into the sorted prefix: after every element
\* that the comparator does not place behind it
RECURSIVE InsertSorted(_, _)
InsertSorted(sorted, e) ==
    IF sorted = <<>> THEN <<e>>
    ELSE IF TsNumber(sorted[Len(sorted)]) - TsNumber(e) <= 0
         THEN Append(sorted, e)
         ELSE Append(InsertSorted(SubSeq(sorted, 1, Len(sorted) - 1), e),
                     sorted[Len(sorted)])

RECURSIVE SortByTimestamp_reversed(_)
SortByTimestamp_reversed(entries) ==
    IF entries = <<>> THEN <<>>
    ELSE LET rest == SortByTimestamp_reversed(SubSeq(entries, 1, Len(entries) - 1))
             e == entries[Len(entries)]
         IN  IF rest = <<>> \/ TsNumber(rest[1]) <= TsNumber(e)
             THEN <<e>> \o rest
             ELSE Append(rest, e)

SortByTimestamp_unsorted(entries) == entries

RECURSIVE SortByTimestamp(_)
SortByTimestamp(entries) ==
    IF entries = <<>> THEN <<>>
    ELSE InsertSorted(SortByTimestamp(SubSeq(entries, 1, Len(entries) - 1)),
                      entries[Len(entries)])

----------------------------------------------------------------------------
(* The arrays of a call: arrays is the sequence of the arrays alive, the   *)
(* argument of the call first; an array is named by its position.          *)

\* the array the caller passed
CallerArray == 1

Spread_alias(arrays, ref) == [ arrays |-> arrays, ref |-> ref ]

\* [...array]: a new array with the same elements
Spread(arrays, ref) ==
    [ arrays |-> Append(arrays, arrays[ref]), ref |-> Len(arrays) + 1 ]

\* array.filter(keep): a new array with the elements kept
Filtered(arrays, kept) ==
    [ arrays |-> Append(arrays, kept), ref |-> Len(arrays) + 1 ]

\* array.sort(compare): the array itself is sorted
SortArray(arrays, ref) == [arrays EXCEPT ![ref] = SortByTimestamp(arrays[ref])]

\* the arrays after `[...(historyEntries || [])].sort(...)` of
\* computeMarketingContribution
ArraysOfContribution(historyEntriesIn) ==
    LET copy == Spread(<<historyEntriesIn>>, CallerArray)
    IN  SortArray(copy.arrays, copy.ref)

\* the arrays after `(sourceHistory || []).filter(...).sort(...)` of
\* buildConversionPath
ArraysOfPath(history, convTs, lb) ==
    LET lookbackMs == (IF lb = <<>> \/ lb = <<0>> THEN MCF_LOOKBACK_DAYS ELSE lb[1]) * DayMs
        windowStart == convTs - lookbackMs
        kept == SelectSeq(history, LAMBDA e :
                    TsNumber(e) >= windowStart /\ TsNumber(e) <= convTs)
        entries == Filtered(<<history>>, kept)
    IN  SortArray(entries.arrays, entries.ref)

\* the same for the later revision of buildConversionPath
ArraysOfPathFull(history, convTs) ==
    LET kept == SelectSeq(history, LAMBDA e : TsNumber(e) > 0 /\ TsNumber(e) <= convTs)
        entries == Filtered(<<history>>, kept)
    IN  SortArray(entries.arrays, entries.ref)

----------------------------------------------------------------------------
(* buildConversionPath *)

\* the loop "Collapse consecutive duplicates"
RECURSIVE CollapseFrom(_, _)
CollapseFrom(collapsed, rawPath) ==
    IF rawPath = <<>> THEN collapsed
    ELSE LET step == Head(rawPath)
         IN  IF Len(collapsed) = 0 \/ collapsed[Len(collapsed)] # step
             THEN CollapseFrom(Append(collapsed, step), Tail(rawPath))
             ELSE CollapseFrom(collapsed, Tail(rawPath))

Collapse_keepAll(rawPath) == rawPath

RECURSIVE DropSeen(_, _)
DropSeen(collapsed, rawPath) ==
    IF rawPath = <<>> THEN collapsed
    ELSE IF \E i \in 1..Len(collapsed) : collapsed[i] = Head(rawPath)
         THEN DropSeen(collapsed, Tail(rawPath))
         ELSE DropSeen(Append(collapsed, Head(rawPath)), Tail(rawPath))

Collapse_dropSeen(rawPath) == DropSeen(<<>>, rawPath)

Collapse(rawPath) == CollapseFrom(<<>>, rawPath)

\* entries.map(normalize).filter(Boolean), the collapse, and the fallback
PathOfEntries_noFallback(entries) ==
    LET rawPath == SelectSeq([i \in 1..Len(entries) |-> NormalizeValue(entries[i])],
                             LAMBDA step : step # <<>>)
    IN  Collapse(rawPath)

PathOfEntries_emptyWhenBlank(entries) ==
    IF Len(entries) = 0 THEN <<UNKNOWN>>
    ELSE Collapse(SelectSeq([i \in 1..Len(entries) |-> NormalizeValue(entries[i])],
                            LAMBDA step : step # <<>>))

PathOfEntries(entries) ==
    IF Len(entries) = 0 THEN <<UNKNOWN>>
    ELSE LET rawPath == SelectSeq([i \in 1..Len(entries) |-> NormalizeValue(entries[i])],
                                  LAMBDA step : step # <<>>)
             collapsed == Collapse(rawPath)
         IN  IF Len(collapsed) > 0 THEN collapsed ELSE <<UNKNOWN>>

\* lookbackDays || MCF_LOOKBACK_DAYS
LookbackOrDefault(lb) == IF lb = <<>> \/ lb = <<0>> THEN MCF_LOOKBACK_DAYS ELSE lb[1]

\* server.js: the 90-day-window revision
buildConversionPath(history, convTs, lb) ==
    LET lookbackMs == LookbackOrDefault(lb) * DayMs
        windowStart == convTs - lookbackMs
        InWin(e) == TsNumber(e) >= windowStart /\ TsNumber(e) <= convTs
    IN  PathOfEntries(SortByTimestamp(SelectSeq(history, InWin)))

\* later revision of server.js: the full-journey variant, no lookback
buildConversionPathFull(history, convTs) ==
    LET InWin(e) == TsNumber(e) > 0 /\ TsNumber(e) <= convTs
    IN  PathOfEntries(SortByTimestamp(SelectSeq(history, InWin)))

----------------------------------------------------------------------------
(* computeMarketingContribution *)

\* the loop of the earliest revision: it starts at index 1 and skips nothing
RECURSIVE CountTransitions(_, _, _)
CountTransitions(entries, sources, counts) ==
    IF entries = <<>> THEN counts
    ELSE CountTransitions(Tail(entries), sources,
             [ totalChanges |-> counts.totalChanges + 1,
               marketingChanges |->
                   counts.marketingChanges
                       + (IF trim(Head(entries).value) \in sources THEN 1 ELSE 0) ])

\* the loop over the sorted entries: an entry whose trimmed value is empty
\* is skipped, every other one is counted, and counted as marketing when
\* the trimmed value is in the set
RECURSIVE CountChanges(_, _, _)
CountChanges(entries, sources, counts) ==
    IF entries = <<>> THEN counts
    ELSE LET newValue == trim(Head(entries).value)
         IN  IF newValue = <<>> THEN CountChanges(Tail(entries), sources, counts)
             ELSE CountChanges(Tail(entries), sources,
                      [ totalChanges |-> counts.totalChanges + 1,
                        marketingChanges |->
                            counts.marketingChanges
                                + (IF newValue \in sources THEN 1 ELSE 0) ])

PercentOf_times100(marketingChanges, totalChanges) ==
    IF totalChanges > 0
    THEN NumberMul(NumberOfRatio(marketingChanges, totalChanges), NumberOfInt(100))
    ELSE NumberOfInt(0)

\* totalChanges > 0 ? marketingChanges / totalChanges : 0
PercentOf(marketingChanges, totalChanges) ==
    IF totalChanges > 0 THEN NumberOfRatio(marketingChanges, totalChanges)
    ELSE NumberOfInt(0)

NoChanges == [totalChanges |-> 0, marketingChanges |-> 0]

computeMarketingContribution_transitionsOnly(entriesIn, sources) ==
    LET entries == SortByTimestamp(entriesIn)
    IN  IF Len(entries) <= 1
        THEN [percent |-> NumberOfInt(0), totalChanges |-> 0, marketingChanges |-> 0]
        ELSE LET counts == CountTransitions(Tail(entries), sources, NoChanges)
             IN  [ percent |-> PercentOf(counts.marketingChanges, counts.totalChanges),
                   totalChanges |-> counts.totalChanges,
                   marketingChanges |-> counts.marketingChanges ]

computeMarketingContribution(entriesIn, sources) ==
    LET entries == SortByTimestamp(entriesIn)
    IN  IF Len(entries) = 0
        THEN [percent |-> NumberOfInt(0), totalChanges |-> 0, marketingChanges |-> 0]
        ELSE LET counts == CountChanges(entries, sources, NoChanges)
             IN  [ percent |-> PercentOf(counts.marketingChanges, counts.totalChanges),
                   totalChanges |-> counts.totalChanges,
                   marketingChanges |-> counts.marketingChanges ]

\* no call of computeMarketingContribution has returned
NoScore == <<>>

\* config[String(portalId)] || {}
NoPortalConfig ==
    [ marketingSources |-> <<>>, updatedAt |-> <<>>,
      lastAnalysisRun |-> <<>>, lastAnalysisResult |-> <<>> ]

----------------------------------------------------------------------------
(* Inputs of the path builder *)

\* raw values: case variants, surrounding whitespace, blank and empty
RichValues == { <<"a">>, <<"A">>, <<" ", "a", " ">>, <<"b">>, <<" ">>, <<>> }

PlainValues == { <<"a">>, <<"b">> }

\* raw timestamps: absent, negative, zero, and points around both windows
RichTimestamps == { <<>>, <<-1>>, <<0>>, <<2>>, <<3>>, <<2163>>, <<2164>> }

PlainTimestamps == { <<1>>, <<2>> }

ValueEntries == [timestamp : PlainTimestamps, value : RichValues]

TimeEntries == [timestamp : RichTimestamps, value : PlainValues]

SeqsUpTo(S, n) == UNION { [1..k -> S] : k \in 0..n }

Histories == SeqsUpTo(ValueEntries, MaxHist) \cup SeqsUpTo(TimeEntries, MaxHist)

ConversionTimes == { 3, 2163 }

Lookbacks == { <<>>, <<1>>, <<90>> }

NoPath == <<>>

\* a CRM without objects
NoCrm == [ events |-> <<>>, failed |-> {} ]

\* validTypes of the request handler
ValidTypes == { "form_submission", "meeting_booked", "deal_created", "closed_won" }

\* loadMcfResults of a tenant without a stored report: no key of the tenant
NoResults == [ conversionType \in ValidTypes |-> <<>> ]

\* no entry in mcfJobStatus
NoJob ==
    [ running |-> FALSE, processed |-> 0, converting |-> 0, conversionType |-> "",
      startDate |-> 0, endDate |-> 0, thresholdPct |-> 0, completed |-> FALSE,
      error |-> <<>> ]

----------------------------------------------------------------------------
(* Specification of the path builder: the inputs are drawn, then one of    *)
(* the two revisions of buildConversionPath is called on them.             *)

InitPath ==
    /\ pc = "ready"
    /\ sourceHistory \in Histories
    /\ conversionTimestamp \in ConversionTimes
    /\ lookbackDays \in Lookbacks
    /\ path = NoPath
    /\ mcfJobStatus = NoJob
    /\ pathCounts = <<>>
    /\ totalConversions = 0
    /\ accumulated = EmptyBag
    /\ mcfResults = <<>>
    /\ pipelineCache = <<>>
    /\ historyEntries = <<>>
    /\ marketingSources = {}
    /\ contribution = NoScore
    /\ jobStatus = <<>>
    /\ portalConfig = NoPortalConfig
    /\ now = 1
    /\ batchRuns = <<>>
    /\ response = <<>>
    /\ apiReplies = <<>>
    /\ contactResult = <<>>
    /\ crm = NoCrm
    /\ conversions = <<>>
    /\ processedContacts = {}
    /\ allResults = NoResults
    /\ jobResult = <<>>
    /\ mcfResponse = <<>>
    /\ stageCache = <<>>
    /\ stageClock = 0
    /\ stageCall = <<>>
    /\ retryCall = <<>>
    /\ scoredWith = {}
    /\ hsHistory = <<>>
    /\ storedPercent = <<>>
    /\ workers = <<>>
    /\ listing = <<>>

CallBuildConversionPath ==
    /\ pc = "ready"
    /\ pc' = "built"
    /\ path' = buildConversionPath(sourceHistory, conversionTimestamp, lookbackDays)
    /\ sourceHistory' = ArraysOfPath(sourceHistory, conversionTimestamp,
                                     lookbackDays)[CallerArray]
    /\ UNCHANGED <<conversionTimestamp, lookbackDays, mcfVars, contribVars, jobVars,
                   callVars, locVars, resultVars, stageVars, retryVars, runVars, hookVars, listVars>>

CallBuildConversionPathFull ==
    /\ pc = "ready"
    /\ lookbackDays = <<>>
    /\ pc' = "builtFull"
    /\ path' = buildConversionPathFull(sourceHistory, conversionTimestamp)
    /\ sourceHistory' = ArraysOfPathFull(sourceHistory, conversionTimestamp)[CallerArray]
    /\ UNCHANGED <<conversionTimestamp, lookbackDays, mcfVars, contribVars, jobVars,
                   callVars, locVars, resultVars, stageVars, retryVars, runVars, hookVars, listVars>>

NextPath == CallBuildConversionPath \/ CallBuildConversionPathFull

SpecPath == InitPath /\ [][NextPath]_vars

----------------------------------------------------------------------------
(* The MCF job: POST /api/mcf/refresh and its background loop *)

RECURSIVE Join(_, _)
Join(parts, sep) ==
    IF parts = <<>> THEN <<>>
    ELSE IF Len(parts) = 1 THEN parts[1]
    ELSE parts[1] \o sep \o Join(Tail(parts), sep)

\* pathArray.join(">")
pathToKey(pathArray) == Join(pathArray, <<">">>)

Zero == NumberOfInt(0)

\* position of the bucket stored under key, 0 when there is none
BucketIndex(buckets, key) ==
    IF \E i \in 1..Len(buckets) : buckets[i].key = key
    THEN CHOOSE i \in 1..Len(buckets) : buckets[i].key = key
    ELSE 0

\* Set.prototype.add on an insertion-ordered Set
SetAdd(set, x) == IF \E i \in 1..Len(set) : set[i] = x THEN set ELSE Append(set, x)

\* the body of the loop for a converting contact: find or create the
\* bucket of the path's key, then count the conversion in it
AccumulateInto(buckets, p, value, currency) ==
    LET key == pathToKey(p)
        withKey == IF BucketIndex(buckets, key) = 0
                   THEN Append(buckets, [key |-> key, path |-> p, conversions |-> 0,
                                         totalValue |-> Zero, currencies |-> <<>>])
                   ELSE buckets
        i == BucketIndex(withKey, key)
    IN  [withKey EXCEPT ![i] =
            [@ EXCEPT !.conversions = @ + 1,
                      !.totalValue = NumberAdd(@, value),
                      !.currencies = IF currency # "" THEN SetAdd(@, currency) ELSE @]]

\* Math.max(1, Math.ceil(totalConversions * (thresholdPct / 100)))
threshNum(total, thresholdPct) ==
    MathMax(1, MathCeil(NumberMul(NumberOfInt(total), NumberOfRatio(thresholdPct, 100))))

QualifiesStrictly(p, minCount) == p.conversions > minCount

\* .filter((p) => p.conversions >= threshNum)
Qualifies(p, minCount) == p.conversions >= minCount

RankedBefore_countOnly(a, b) == b.conversions <= a.conversions

\* b.conversions - a.conversions || b.totalValue - a.totalValue, as <= 0:
\* the sort leaves a in front of b
RankedBefore(a, b) ==
    \/ b.conversions < a.conversions
    \/ b.conversions = a.conversions /\ ~NumberLess(a.totalValue, b.totalValue)

RECURSIVE InsertRanked(_, _)
InsertRanked(sorted, p) ==
    IF sorted = <<>> THEN <<p>>
    ELSE IF RankedBefore(sorted[Len(sorted)], p) THEN Append(sorted, p)
    ELSE Append(InsertRanked(SubSeq(sorted, 1, Len(sorted) - 1), p), sorted[Len(sorted)])

\* Array.prototype.sort with the ranking comparator: a stable sort
RECURSIVE SortRanked(_)
SortRanked(buckets) ==
    IF buckets = <<>> THEN <<>>
    ELSE InsertRanked(SortRanked(SubSeq(buckets, 1, Len(buckets) - 1)),
                      buckets[Len(buckets)])

\* the row of the report made from a bucket
SummaryRow(p) ==
    [ path |-> p.path,
      pathKey |-> pathToKey(p.path),
      conversions |-> p.conversions,
      conversionValue |->
          NumberOfRatio(MathRound(NumberMul(p.totalValue, NumberOfInt(100))), 100),
      currencies |-> p.currencies ]

\* Object.values(pathCounts).filter(...).sort(...).map(...)
topPathsOf(buckets, minCount) ==
    LET kept == SelectSeq(buckets, LAMBDA p : Qualifies(p, minCount))
        ranked == SortRanked(kept)
    IN  [i \in 1..Len(ranked) |-> SummaryRow(ranked[i])]

RECURSIVE AddAll(_, _)
AddAll(set, xs) == IF xs = <<>> THEN set ELSE AddAll(SetAdd(set, Head(xs)), Tail(xs))

RECURSIVE AllCurrencies(_)
AllCurrencies(rows) ==
    IF rows = <<>> THEN <<>>
    ELSE AddAll(AllCurrencies(SubSeq(rows, 1, Len(rows) - 1)), rows[Len(rows)].currencies)

\* the report written when the loop has ended
ReportOf(buckets, total, status) ==
    LET minCount == threshNum(total, status.thresholdPct)
        rows == topPathsOf(buckets, minCount)
        all == AllCurrencies(rows)
    IN  [ paths |-> rows,
          totalConversions |-> total,
          totalContacts |-> status.processed,
          thresholdPct |-> status.thresholdPct,
          thresholdCount |-> minCount,
          conversionType |-> status.conversionType,
          startDate |-> status.startDate,
          endDate |-> status.endDate,
          currencies |-> all,
          mixedCurrencies |-> Len(all) > 1 ]

StoreResult_merged(all, conversionType, result) ==
    IF all[conversionType] = <<>> THEN [all EXCEPT ![conversionType] = <<result>>]
    ELSE [all EXCEPT ![conversionType] =
             <<[result EXCEPT !.paths = all[conversionType][1].paths \o @,
                              !.totalConversions =
                                  all[conversionType][1].totalConversions + @]>>]

\* allResults[`${portalId}:${conversionType}`] = result; saveMcfResults
StoreResult(all, conversionType, result) ==
    [all EXCEPT ![conversionType] = <<result>>]

\* the response of GET /api/mcf/result when nothing is stored
NoResultsAvailable == [ paths |-> <<>>, totalConversions |-> 0 ]

\* GET /api/mcf/result: the report of the job in memory when it is of the
\* type asked for, else the persisted report of the key, else none
getMcfResult(result, all, conversionType) ==
    IF result # <<>> /\ result[1].conversionType = conversionType THEN result[1]
    ELSE IF all[conversionType] # <<>> THEN all[conversionType][1]
    ELSE NoResultsAvailable

(* Inputs of the MCF job *)

\* the request: the window [startDate, endDate] is the default 90 days
RequestStart == 3

RequestEnd == RequestStart + MCF_LOOKBACK_DAYS * DayMs

\* thresholdPct of the request body: the default, two menu entries of the
\* card, and two values only a direct request can send
ThresholdPcts == { 10, 25, 28, 100 }

\* value and currency of a conversion: a form submission (0, null) and
\* deals whose amounts "0.1" and "0.4" are read by parseFloat
ValuesAndCurrencies ==
    { <<Zero, "">>,
      <<NumberOfRatio(1, 10), "USD">>,
      <<NumberOfRatio(4, 10), "USD">>,
      <<NumberOfRatio(1, 10), "EUR">> }

\* getConversionTimestamp: null (<<>>), or a conversion before, at the start
\* of, or after the requested window
ConvResults ==
    { <<>> }
    \cup { <<[timestamp |-> RequestStart, value |-> vc[1], currency |-> vc[2]]>> :
            vc \in ValuesAndCurrencies }
    \cup { <<[timestamp |-> t, value |-> Zero, currency |-> ""]>> :
            t \in { RequestStart - 1, RequestEnd + 1 } }

\* hs_latest_source histories of the scanned contacts
McfHistories ==
    { <<>>,
      << [timestamp |-> <<1>>, value |-> <<"a">>] >>,
      << [timestamp |-> <<1>>, value |-> <<"a">>], [timestamp |-> <<2>>, value |-> <<"b">>] >>,
      << [timestamp |-> <<1>>, value |-> <<"a", ">", "b">>] >> }

Contacts == [conv : ConvResults, history : McfHistories]

\* conversionType of the request body: the default, and the kind that
\* needs the closed-won stages of the deal pipelines
ConversionTypes == { "form_submission", "closed_won" }

\* the closed-won stage ids a fetch of the deal pipelines can yield
StageSets == { {}, { "closedwon" } }

\* getClosedWonStageIds: the stage ids returned and the cache left behind.
\* A fresh cache entry is returned; otherwise the pipelines are fetched,
\* and the fetch either fills the cache or fails, which returns the empty
\* set and leaves the cache as it was.
getClosedWonStageIds(cache) ==
    (IF cache # <<>> THEN { [stageIds |-> cache[1], cache |-> cache] } ELSE {})
    \cup { [stageIds |-> stageIds, cache |-> <<stageIds>>] : stageIds \in StageSets }
    \cup { [stageIds |-> {}, cache |-> cache] }

\* the stage lookup getConversionTimestamp makes: none but for closed_won
StageLookups(conversionType, cache) ==
    IF conversionType = "closed_won" THEN getClosedWonStageIds(cache)
    ELSE { [stageIds |-> { "unused" }, cache |-> cache] }

\* mcfJobStatus[jobKey] as set by the request handler
StartedJob(conversionType, thresholdPct) ==
    [ running |-> TRUE, processed |-> 0, converting |-> 0,
      conversionType |-> conversionType,
      startDate |-> RequestStart, endDate |-> RequestEnd,
      thresholdPct |-> thresholdPct, completed |-> FALSE, error |-> <<>> ]

(* Actions of the MCF job *)

\* POST /api/mcf/refresh when no job is running: the status is set and the
\* background job starts with empty buckets
PostMcfRefresh ==
    /\ pc = "idle"
    /\ ~mcfJobStatus.running
    /\ \E conversionType \in ConversionTypes, thresholdPct \in ThresholdPcts :
          mcfJobStatus' = StartedJob(conversionType, thresholdPct)
    /\ pathCounts' = <<>>
    /\ totalConversions' = 0
    /\ accumulated' = EmptyBag
    /\ jobResult' = <<>>
    /\ pc' = "running"
    /\ UNCHANGED <<pathVars, mcfResults, pipelineCache, contribVars, jobVars, callVars,
                   locVars, allResults, mcfResponse, stageVars, retryVars, runVars, hookVars, listVars>>

\* one pass of the loop over the listed contacts
ProcessContact ==
    /\ pc = "running"
    /\ mcfJobStatus.processed < MaxContacts
    /\ \E contact \in Contacts,
          lookup \in StageLookups(mcfJobStatus.conversionType, pipelineCache) :
          /\ pipelineCache' = lookup.cache
          /\ LET convResult == IF lookup.stageIds = {} THEN <<>> ELSE contact.conv
                 counted ==
                     /\ convResult # <<>>
                     /\ ~(convResult[1].timestamp < mcfJobStatus.startDate)
                     /\ ~(convResult[1].timestamp > mcfJobStatus.endDate)
                 p == buildConversionPath(contact.history, convResult[1].timestamp,
                                          <<MCF_LOOKBACK_DAYS>>)
             IN  IF counted
                 THEN /\ pathCounts' = AccumulateInto(pathCounts, p, convResult[1].value,
                                                      convResult[1].currency)
                      /\ totalConversions' = totalConversions + 1
                      /\ mcfJobStatus' = [mcfJobStatus EXCEPT
                                             !.processed = @ + 1,
                                             !.converting = totalConversions + 1]
                      /\ accumulated' = accumulated (+) SetToBag({
                             [path |-> p, value |-> convResult[1].value,
                              currency |-> convResult[1].currency] })
                 ELSE /\ mcfJobStatus' = [mcfJobStatus EXCEPT !.processed = @ + 1]
                      /\ UNCHANGED <<pathCounts, totalConversions, accumulated>>
    /\ UNCHANGED <<pc, pathVars, mcfResults, contribVars, jobVars, callVars, locVars, resultVars, stageVars, retryVars, runVars, hookVars, listVars>>

\* the listing has ended (or a page could not be fetched): threshold,
\* ranking, report, persist, running = false; a failed write of the
\* results file throws into the catch of the job
FinishMcfJob ==
    /\ pc = "running"
    /\ \E saved \in BOOLEAN :
          IF saved
          THEN LET result == ReportOf(pathCounts, totalConversions, mcfJobStatus)
               IN  /\ mcfResults' = <<result>>
                   /\ allResults' = StoreResult(allResults, mcfJobStatus.conversionType,
                                                result)
                   /\ jobResult' = <<result>>
                   /\ mcfJobStatus' = [mcfJobStatus EXCEPT !.running = FALSE,
                                                           !.completed = TRUE]
          ELSE /\ mcfJobStatus' = [mcfJobStatus EXCEPT !.running = FALSE,
                                                       !.error = <<"results">>]
               /\ UNCHANGED <<mcfResults, allResults, jobResult>>
    /\ pc' = "done"
    /\ UNCHANGED <<pathVars, pathCounts, totalConversions, accumulated, pipelineCache,
                   contribVars, jobVars, callVars, locVars, mcfResponse, stageVars, retryVars, runVars, hookVars, listVars>>

InitMcf ==
    /\ pc = "idle"
    /\ sourceHistory = <<>>
    /\ conversionTimestamp = 0
    /\ lookbackDays = <<>>
    /\ path = NoPath
    /\ mcfJobStatus = NoJob
    /\ pathCounts = <<>>
    /\ totalConversions = 0
    /\ accumulated = EmptyBag
    /\ mcfResults = <<>>
    /\ pipelineCache = <<>>
    /\ historyEntries = <<>>
    /\ marketingSources = {}
    /\ contribution = NoScore
    /\ jobStatus = <<>>
    /\ portalConfig = NoPortalConfig
    /\ now = 1
    /\ batchRuns = <<>>
    /\ response = <<>>
    /\ apiReplies = <<>>
    /\ contactResult = <<>>
    /\ crm = NoCrm
    /\ conversions = <<>>
    /\ processedContacts = {}
    /\ allResults = NoResults
    /\ jobResult = <<>>
    /\ mcfResponse = <<>>
    /\ stageCache = <<>>
    /\ stageClock = 0
    /\ stageCall = <<>>
    /\ retryCall = <<>>
    /\ scoredWith = {}
    /\ hsHistory = <<>>
    /\ storedPercent = <<>>
    /\ workers = <<>>
    /\ listing = <<>>

NextMcf == PostMcfRefresh \/ ProcessContact \/ FinishMcfJob

SpecMcf == InitMcf /\ [][NextMcf]_vars

(* The ranking step on its own: the loop has ended with the drawn buckets  *)

\* paths of the drawn buckets, in insertion order
RankPaths == << << <<"A">> >>, << <<"B">> >>, << <<"A">>, <<"B">> >> >>

\* total value and currencies of the drawn buckets
RankValues == << NumberOfRatio(1, 10), Zero, NumberOfRatio(1, 10) >>

RankCurrencies == << <<"USD">>, <<>>, <<"EUR">> >>

\* the buckets with the conversions counts given; a count of 0 is no bucket
BucketsOf(counts) ==
    LET all == [i \in 1..Len(RankPaths) |->
                   [key |-> pathToKey(RankPaths[i]), path |-> RankPaths[i],
                    conversions |-> counts[i], totalValue |-> RankValues[i],
                    currencies |-> RankCurrencies[i]]]
    IN  SelectSeq(all, LAMBDA p : p.conversions > 0)

RECURSIVE SumConversions(_)
SumConversions(buckets) ==
    IF buckets = <<>> THEN 0
    ELSE buckets[1].conversions + SumConversions(Tail(buckets))

InitRank ==
    /\ pc = "running"
    /\ sourceHistory = <<>>
    /\ conversionTimestamp = 0
    /\ lookbackDays = <<>>
    /\ path = NoPath
    /\ \E counts \in [1..Len(RankPaths) -> 0..MaxBucket] :
          /\ pathCounts = BucketsOf(counts)
          /\ totalConversions = SumConversions(BucketsOf(counts))
    /\ \E thresholdPct \in ThresholdPcts :
          mcfJobStatus = [StartedJob("form_submission", thresholdPct) EXCEPT
                             !.processed = totalConversions,
                             !.converting = totalConversions]
    /\ accumulated = EmptyBag
    /\ mcfResults = <<>>
    /\ pipelineCache = <<>>
    /\ historyEntries = <<>>
    /\ marketingSources = {}
    /\ contribution = NoScore
    /\ jobStatus = <<>>
    /\ portalConfig = NoPortalConfig
    /\ now = 1
    /\ batchRuns = <<>>
    /\ response = <<>>
    /\ apiReplies = <<>>
    /\ contactResult = <<>>
    /\ crm = NoCrm
    /\ conversions = <<>>
    /\ processedContacts = {}
    /\ allResults = NoResults
    /\ jobResult = <<>>
    /\ mcfResponse = <<>>
    /\ stageCache = <<>>
    /\ stageClock = 0
    /\ stageCall = <<>>
    /\ retryCall = <<>>
    /\ scoredWith = {}
    /\ hsHistory = <<>>
    /\ storedPercent = <<>>
    /\ workers = <<>>
    /\ listing = <<>>

NextRank == FinishMcfJob

SpecRank == InitRank /\ [][NextRank]_vars

(* The result endpoint: a run over a tenant with reports of earlier runs   *)
(* has reached the end of its loop; it ends, and the result is read.       *)

\* conversions counts of the buckets of two earlier runs
PreviousCounts == { <<2, 0, 1>>, <<3, 3, 0>> }

\* the reports earlier runs of the given type have stored
PreviousReports(conversionType) ==
    { ReportOf(BucketsOf(counts), SumConversions(BucketsOf(counts)),
               [StartedJob(conversionType, 10) EXCEPT
                   !.processed = SumConversions(BucketsOf(counts)),
                   !.converting = SumConversions(BucketsOf(counts))]) :
        counts \in PreviousCounts }

\* the results file of the tenant: for each type a report or none
StoredResults ==
    { all \in [ ValidTypes -> { <<>> } \cup UNION { { <<r>> : r \in PreviousReports(t) } :
                                                      t \in ConversionTypes } ] :
        \A t \in ValidTypes :
            all[t] # <<>> => (t \in ConversionTypes /\ all[t][1].conversionType = t) }

\* GET /api/mcf/result?conversionType=...
GetMcfResult ==
    /\ \E conversionType \in ConversionTypes :
          mcfResponse' = <<[ conversionType |-> conversionType,
                            response |-> getMcfResult(jobResult, allResults,
                                                      conversionType) ]>>
    /\ UNCHANGED <<pc, pathVars, mcfVars, contribVars, jobVars, callVars, locVars,
                   allResults, jobResult, stageVars, retryVars, runVars, hookVars, listVars>>

InitResult ==
    /\ pc = "running"
    /\ sourceHistory = <<>>
    /\ conversionTimestamp = 0
    /\ lookbackDays = <<>>
    /\ path = NoPath
    /\ \E counts \in [1..Len(RankPaths) -> 0..MaxStored] :
          /\ pathCounts = BucketsOf(counts)
          /\ totalConversions = SumConversions(BucketsOf(counts))
    /\ \E conversionType \in ConversionTypes :
          mcfJobStatus = [StartedJob(conversionType, 10) EXCEPT
                             !.processed = totalConversions,
                             !.converting = totalConversions]
    /\ accumulated = EmptyBag
    /\ mcfResults = <<>>
    /\ pipelineCache = <<>>
    /\ historyEntries = <<>>
    /\ marketingSources = {}
    /\ contribution = NoScore
    /\ jobStatus = <<>>
    /\ portalConfig = NoPortalConfig
    /\ now = 1
    /\ batchRuns = <<>>
    /\ response = <<>>
    /\ apiReplies = <<>>
    /\ contactResult = <<>>
    /\ crm = NoCrm
    /\ conversions = <<>>
    /\ processedContacts = {}
    /\ allResults \in StoredResults
    /\ jobResult = <<>>
    /\ mcfResponse = <<>>
    /\ stageCache = <<>>
    /\ stageClock = 0
    /\ stageCall = <<>>
    /\ retryCall = <<>>
    /\ scoredWith = {}
    /\ hsHistory = <<>>
    /\ storedPercent = <<>>
    /\ workers = <<>>
    /\ listing = <<>>

NextResult == FinishMcfJob \/ GetMcfResult

SpecResult == InitResult /\ [][NextResult]_vars

----------------------------------------------------------------------------
(* The conversion locators of the later revision (conversion-first): the   *)
(* meetings or deals of the window are searched and mapped to their        *)
(* contacts, and a contact is kept when no earlier event is found for it.  *)
(* db is the CRM: db.events are its meetings or deals (an event's id is    *)
(* its position), db.failed the lookups that fail after their retries.     *)

ContactIds == { 1, 2 }

\* getAssociations from an event to its contacts: [] when the lookup fails
ContactsOfEvent(db, id) ==
    IF <<"event", id>> \in db.failed THEN {} ELSE db.events[id].contacts

\* getAssociations from a contact to its events: [] when the lookup fails
EventsOfContact(db, cId) ==
    IF <<"contact", cId>> \in db.failed THEN {}
    ELSE { id \in 1..Len(db.events) : cId \in db.events[id].contacts }

\* hubspotApiWithRetry on the object of an event: <<>> when it throws
FetchEvent(db, id) ==
    IF <<"fetch", id>> \in db.failed THEN <<>> ELSE <<db.events[id]>>

\* the ids of the events, in the order a search returns them
EventIds(db) == [ id \in 1..Len(db.events) |-> id ]

\* operator BETWEEN of a search filter
Between(t, start, end) == start <= t /\ t <= end

\* Object.keys of a map keyed by contact id: the ids in ascending order
RECURSIVE Ascending(_)
Ascending(ids) ==
    IF ids = {} THEN <<>>
    ELSE LET least == CHOOSE x \in ids : \A y \in ids : x <= y
         IN  <<least>> \o Ascending(ids \ { least })

\* const contactMap = {}
EmptyContactMap == [ cId \in ContactIds |-> <<>> ]

\* hs_meeting_start_time || hs_createdate of a meeting
MeetingTs(meeting) ==
    IF meeting.start # <<>> THEN meeting.start[1] ELSE meeting.created

KeepEarliest_tsOnly(contactMap, contactIds, entry) ==
    [ cId \in ContactIds |->
        IF cId \in contactIds /\ contactMap[cId] = <<>> THEN <<entry>>
        ELSE IF cId \in contactIds /\ entry.ts < contactMap[cId][1].ts
        THEN <<[contactMap[cId][1] EXCEPT !.ts = entry.ts]>>
        ELSE contactMap[cId] ]

\* if (!contactMap[cId] || dTs < contactMap[cId].ts) contactMap[cId] = entry,
\* for every contact of the event
KeepEarliest(contactMap, contactIds, entry) ==
    [ cId \in ContactIds |->
        IF cId \in contactIds
           /\ (contactMap[cId] = <<>> \/ entry.ts < contactMap[cId][1].ts)
        THEN <<entry>>
        ELSE contactMap[cId] ]

\* if (!contactMap[cId] || mTs < contactMap[cId]) contactMap[cId] = mTs:
\* the map of the meetings holds bare timestamps, and 0 is falsy
KeepEarliestTs(contactMap, contactIds, mTs) ==
    [ cId \in ContactIds |->
        IF cId \in contactIds
           /\ (contactMap[cId] = <<>> \/ contactMap[cId][1].ts = 0
               \/ mTs < contactMap[cId][1].ts)
        THEN <<[ts |-> mTs, value |-> Zero, currency |-> ""]>>
        ELSE contactMap[cId] ]

\* step 2 of findMeetingBookedConversions: the meetings found, in order
RECURSIVE MapMeetings(_, _, _)
MapMeetings(db, found, contactMap) ==
    IF found = <<>> THEN contactMap
    ELSE MapMeetings(db, Tail(found),
                     KeepEarliestTs(contactMap, ContactsOfEvent(db, Head(found)),
                                    MeetingTs(db.events[Head(found)])))

\* the map of findDealCreatedConversions: the deals found, in order
RECURSIVE MapDeals(_, _, _)
MapDeals(db, found, contactMap) ==
    IF found = <<>> THEN contactMap
    ELSE LET deal == db.events[Head(found)]
         IN  MapDeals(db, Tail(found),
                      KeepEarliest(contactMap, ContactsOfEvent(db, Head(found)),
                                   [ ts |-> deal.created, value |-> deal.value,
                                     currency |-> deal.currency ]))

\* step 3 of findMeetingBookedConversions: some meeting of the contact that
\* could be fetched starts before the window
HasEarlierMeeting(db, cId, start) ==
    \E id \in EventsOfContact(db, cId) :
        /\ FetchEvent(db, id) # <<>>
        /\ MeetingTs(FetchEvent(db, id)[1]) < start

\* the first-ever check of findDealCreatedConversions
HasEarlierDeal(db, cId, start) ==
    \E id \in EventsOfContact(db, cId) :
        /\ FetchEvent(db, id) # <<>>
        /\ FetchEvent(db, id)[1].created < start

\* conversions.push({ contactId, conversionTimestamp, conversionValue, currency })
ConversionOf(cId, entry) ==
    [ contactId |-> cId, conversionTimestamp |-> entry.ts,
      conversionValue |-> entry.value, currency |-> entry.currency ]

\* the conversions of the contacts kept, in the order of the map's keys
ConversionsOfMap(contactMap, kept) ==
    LET ids == Ascending(kept)
    IN  [ k \in 1..Len(ids) |-> ConversionOf(ids[k], contactMap[ids[k]][1]) ]

\* findFormSubmissionConversions: a conversion for every contact the search
\* returns, in the order of the search
findFormSubmissionConversions(db, start, end) ==
    LET found == SelectSeq(EventIds(db), LAMBDA id :
                     Between(db.events[id].created, start, end))
    IN  [ k \in 1..Len(found) |->
            [ contactId |-> db.events[found[k]].contact,
              conversionTimestamp |-> db.events[found[k]].created,
              conversionValue |-> Zero, currency |-> "" ] ]

findMeetingBookedConversions(db, start, end) ==
    LET found == SelectSeq(EventIds(db), LAMBDA id :
                     Between(db.events[id].created, start, end))
        contactMap == MapMeetings(db, found, EmptyContactMap)
        kept == { cId \in ContactIds :
                    contactMap[cId] # <<>> /\ ~HasEarlierMeeting(db, cId, start) }
    IN  ConversionsOfMap(contactMap, kept)

findDealCreatedConversions(db, start, end) ==
    LET found == SelectSeq(EventIds(db), LAMBDA id :
                     Between(db.events[id].created, start, end))
        contactMap == MapDeals(db, found, EmptyContactMap)
        kept == { cId \in ContactIds :
                    contactMap[cId] # <<>> /\ ~HasEarlierDeal(db, cId, start) }
    IN  ConversionsOfMap(contactMap, kept)

\* the timestamp at which a deal first entered a closed-won stage, from its
\* stage history sorted by time; <<>> when it never did
FirstClosedWon(deal, stages) ==
    LET entered == SelectSeq(SortByTimestamp(deal.history),
                             LAMBDA e : e.value \in stages)
    IN  IF entered = <<>> THEN <<>> ELSE entered[1].timestamp

\* cwTs of a deal: the stage history, or the closedate when the history
\* gives none (!cwTs: null or 0)
ClosedWonTs(deal, stages) ==
    LET cwTs == FirstClosedWon(deal, stages)
    IN  IF (cwTs = <<>> \/ cwTs[1] = 0) /\ deal.closedate # <<>>
        THEN deal.closedate
        ELSE cwTs

\* the deals found that reached closed-won inside the window, in order; a
\* deal whose fetch throws is skipped
RECURSIVE QualifyingDeals(_, _, _, _, _)
QualifyingDeals(db, found, start, end, stages) ==
    IF found = <<>> THEN <<>>
    ELSE LET dh == FetchEvent(db, Head(found))
             cwTs == ClosedWonTs(dh[1], stages)
             rest == QualifyingDeals(db, Tail(found), start, end, stages)
         IN  IF dh # <<>> /\ cwTs # <<>> /\ cwTs[1] # 0
                /\ Between(cwTs[1], start, end)
             THEN << [ dealId |-> Head(found), ts |-> cwTs[1],
                       value |-> dh[1].value, currency |-> dh[1].currency ] >>
                  \o rest
             ELSE rest

\* the map of findClosedWonConversions: the qualifying deals, in order
RECURSIVE MapQualifying(_, _, _)
MapQualifying(db, qualifying, contactMap) ==
    IF qualifying = <<>> THEN contactMap
    ELSE MapQualifying(db, Tail(qualifying),
                       KeepEarliest(contactMap,
                                    ContactsOfEvent(db, Head(qualifying).dealId),
                                    Head(qualifying)))

\* the first-ever check of findClosedWonConversions: another deal of the
\* contact that could be fetched entered a closed-won stage before the
\* window
HasEarlierClosedWon(db, cId, dealId, start, stages) ==
    \E id \in EventsOfContact(db, cId) \ { dealId } :
        /\ FetchEvent(db, id) # <<>>
        /\ \E k \in 1..Len(FetchEvent(db, id)[1].history) :
              LET entry == FetchEvent(db, id)[1].history[k]
              IN  entry.value \in stages /\ entry.timestamp[1] < start

\* getConversionTimestamp of the earlier revision, case "closed_won", for
\* the deals of one contact in the order given: the earliest first entry
\* into a closed-won stage among the deals now in such a stage, flagged
\* approximate when it is a closedate taken for want of a history entry
RECURSIVE EarliestClosedWon(_, _, _, _)
EarliestClosedWon(db, dealIds, stages, earliest) ==
    IF dealIds = <<>> THEN earliest
    ELSE LET deal == FetchEvent(db, Head(dealIds))
             fromHistory == FirstClosedWon(deal[1], stages)
             approximate == (fromHistory = <<>> \/ fromHistory[1] = 0)
                            /\ deal[1].closedate # <<>>
             closedWonTs == IF approximate THEN deal[1].closedate ELSE fromHistory
             found == [ timestamp |-> closedWonTs[1], value |-> deal[1].value,
                        currency |-> deal[1].currency, approximate |-> approximate ]
         IN  EarliestClosedWon(db, Tail(dealIds), stages,
                 IF /\ deal # <<>>
                    /\ deal[1].stage \in stages
                    /\ closedWonTs # <<>>
                    /\ closedWonTs[1] # 0
                    /\ (earliest = <<>> \/ closedWonTs[1] < earliest[1].timestamp)
                 THEN <<found>>
                 ELSE earliest)

\* null (<<>>) without stages, when the association lookup throws or lists
\* no deal, and when no deal gives a timestamp
getConversionTimestampClosedWon(db, cId, stages) ==
    IF stages = {} \/ <<"contact", cId>> \in db.failed THEN <<>>
    ELSE EarliestClosedWon(db, Ascending(EventsOfContact(db, cId)), stages, <<>>)

findClosedWonConversions(db, start, end, stages) ==
    IF stages = {} THEN <<>>
    ELSE LET found == SelectSeq(EventIds(db), LAMBDA id :
                          /\ db.events[id].stage \in stages
                          /\ db.events[id].closedate # <<>>
                          /\ Between(db.events[id].closedate[1], start, end))
             qualifying == QualifyingDeals(db, found, start, end, stages)
             contactMap == MapQualifying(db, qualifying, EmptyContactMap)
             kept == { cId \in ContactIds :
                         /\ contactMap[cId] # <<>>
                         /\ ~HasEarlierClosedWon(db, cId, contactMap[cId][1].dealId,
                                                 start, stages) }
         IN  ConversionsOfMap(contactMap, kept)

\* the switch on conversionType of the background job
findConversions(conversionType, db, start, end, stages) ==
    CASE conversionType = "form_submission" ->
             findFormSubmissionConversions(db, start, end)
      [] conversionType = "meeting_booked" ->
             findMeetingBookedConversions(db, start, end)
      [] conversionType = "deal_created" ->
             findDealCreatedConversions(db, start, end)
      [] conversionType = "closed_won" ->
             findClosedWonConversions(db, start, end, stages)

\* the objects the search of a finder returns, in order
SearchHits(conversionType, db, start, end, stages) ==
    IF conversionType = "closed_won"
    THEN IF stages = {} THEN <<>>
         ELSE SelectSeq(EventIds(db), LAMBDA id :
                  /\ db.events[id].stage \in stages
                  /\ db.events[id].closedate # <<>>
                  /\ Between(db.events[id].closedate[1], start, end))
    ELSE SelectSeq(EventIds(db), LAMBDA id :
             Between(db.events[id].created, start, end))

\* jobStatus.processed as a finder leaves it: the contacts found for the
\* form submissions; for the other kinds the objects scanned, written at
\* every tenth
ProcessedByFinder(conversionType, hits) ==
    IF conversionType = "form_submission" THEN Len(hits)
    ELSE 10 * (Len(hits) \div 10)

(* The CRMs drawn *)

\* timestamps before the window, at its start, inside it and after its end
BeforeWindow == RequestStart - 2

EarlyInWindow == RequestStart

LateInWindow == RequestStart + 1

AfterWindow == RequestEnd + 1

\* the contacts an event is associated with
EventContacts == { { 1 }, { 1, 2 } }

\* contacts returned by the search on hs_first_conversion_date
FormHits == [ created : { EarlyInWindow, LateInWindow }, contact : ContactIds ]

\* meetings: created before or inside the window; with no start time, or
\* booked inside the window for a time after its end
Meetings ==
    { [ created |-> t[1], start |-> t[2], contacts |-> cs ] :
        t \in { <<BeforeWindow, <<>>>>, <<EarlyInWindow, <<>>>>, <<LateInWindow, <<>>>>,
                <<EarlyInWindow, <<AfterWindow>>>> },
        cs \in EventContacts }

\* deals: created before or inside the window, with an amount or none
Deals ==
    { [ created |-> t, value |-> vc[1], currency |-> vc[2], contacts |-> cs ] :
        t \in { BeforeWindow, EarlyInWindow, LateInWindow },
        vc \in { <<Zero, "">>, <<NumberOfRatio(1, 10), "USD">> },
        cs \in EventContacts }

\* an entry of the dealstage history
Entered(t, stage) == [ timestamp |-> <<t>>, value |-> stage ]

\* closed-won deals: won inside the window (early or late), closed inside
\* the window with no stage history, won before the window and closed
\* inside or before it
WonDeals ==
    { [ stage |-> "closedwon", closedate |-> d[1], history |-> d[2],
        value |-> d[3], currency |-> d[4], contacts |-> cs ] :
        d \in { << <<LateInWindow>>, <<Entered(BeforeWindow, "open"), Entered(EarlyInWindow, "closedwon")>>,
                   NumberOfRatio(1, 10), "USD" >>,
                << <<LateInWindow>>, <<Entered(LateInWindow, "closedwon")>>,
                   NumberOfRatio(4, 10), "EUR" >>,
                << <<EarlyInWindow>>, <<>>, NumberOfRatio(4, 10), "USD" >>,
                << <<LateInWindow>>, <<Entered(BeforeWindow, "closedwon")>>, Zero, "" >>,
                << <<BeforeWindow>>, <<Entered(BeforeWindow, "closedwon")>>, Zero, "" >> },
        cs \in EventContacts }

\* the CRM objects a run of the given type searches
EventsOfType(conversionType) ==
    CASE conversionType = "form_submission" -> FormHits
      [] conversionType = "meeting_booked" -> Meetings
      [] conversionType = "deal_created" -> Deals
      [] conversionType = "closed_won" -> WonDeals

\* the lookups a run of the given type makes on the given events
Lookups(conversionType, events) ==
    IF conversionType = "form_submission" THEN { <<"search">> }
    ELSE { <<"search">> }
         \cup { <<"event", id>> : id \in 1..Len(events) }
         \cup { <<"fetch", id>> : id \in 1..Len(events) }
         \cup { <<"contact", cId>> : cId \in ContactIds }

\* a contact found twice by the search on hs_first_conversion_date has the
\* same date both times
SameContactSameDate(events) ==
    \A i, j \in 1..Len(events) :
        events[i].contact = events[j].contact => events[i] = events[j]

\* the search results of a run of the given type: up to MaxEvents objects
EventLists(conversionType) ==
    { events \in SeqsUpTo(EventsOfType(conversionType), MaxEvents) :
        conversionType = "form_submission" => SameContactSameDate(events) }

\* the CRMs of a run: the objects, and at most one lookup that fails
Crms(conversionType) ==
    UNION { { [ events |-> events, failed |-> failed ] :
                failed \in { {} }
                    \cup { { f } : f \in Lookups(conversionType, events) } } :
            events \in EventLists(conversionType) }

\* the CRMs of a run in which every lookup succeeds
SoundCrms(conversionType) ==
    { [ events |-> events, failed |-> {} ] : events \in EventLists(conversionType) }

\* the CRMs of a whole run: every lookup succeeds, or the search fails
JobCrms(conversionType) ==
    SoundCrms(conversionType)
    \cup { [ events |-> <<>>, failed |-> { <<"search">> } ] }

(* The background job of the later revision *)

\* step 1 of the background job: the conversions are located; a search
\* that throws ends the run in the catch of the job
LocateConversions ==
    /\ pc = "locating"
    /\ \E lookup \in StageLookups(mcfJobStatus.conversionType, pipelineCache) :
          /\ pipelineCache' = lookup.cache
          /\ IF lookup.stageIds # {} /\ <<"search">> \in crm.failed
             THEN /\ mcfJobStatus' = [mcfJobStatus EXCEPT !.running = FALSE,
                                                          !.error = <<"search">>]
                  /\ conversions' = <<>>
                  /\ pc' = "done"
             ELSE LET located == findConversions(mcfJobStatus.conversionType, crm,
                                                 mcfJobStatus.startDate,
                                                 mcfJobStatus.endDate, lookup.stageIds)
                      hits == SearchHits(mcfJobStatus.conversionType, crm,
                                         mcfJobStatus.startDate,
                                         mcfJobStatus.endDate, lookup.stageIds)
                  IN  /\ conversions' = located
                      /\ mcfJobStatus' = [mcfJobStatus EXCEPT
                             !.processed =
                                 ProcessedByFinder(mcfJobStatus.conversionType, hits),
                             !.converting = Len(located)]
                      /\ pc' = "paths"
    /\ UNCHANGED <<pathVars, pathCounts, totalConversions, accumulated, mcfResults,
                   contribVars, jobVars, callVars, crm, processedContacts,
                   resultVars, stageVars, retryVars, runVars, hookVars, listVars>>

AlreadyProcessed_never(processed, conv) == FALSE

\* processedContacts.has(conv.contactId)
AlreadyProcessed(processed, conv) == conv.contactId \in processed

\* step 2, one pass of the loop over the conversions: a contact seen
\* before is passed over; otherwise its source history is fetched and its
\* path counted, and a fetch that throws leaves the buckets as they are
BuildPathOfConversion ==
    /\ pc = "paths"
    /\ conversions # <<>>
    /\ conversions' = Tail(conversions)
    /\ LET conv == Head(conversions)
       IN  IF AlreadyProcessed(processedContacts, conv)
           THEN UNCHANGED <<processedContacts, mcfJobStatus, pathCounts, accumulated>>
           ELSE /\ processedContacts' = processedContacts \cup { conv.contactId }
                /\ mcfJobStatus' = [mcfJobStatus EXCEPT
                                       !.processed = Cardinality(processedContacts')]
                /\ \E contactData \in { <<>> } \cup { <<h>> : h \in McfHistories } :
                      IF contactData = <<>>
                      THEN UNCHANGED <<pathCounts, accumulated>>
                      ELSE LET p == buildConversionPathFull(contactData[1],
                                                           conv.conversionTimestamp)
                           IN  /\ pathCounts' = AccumulateInto(pathCounts, p,
                                                               conv.conversionValue,
                                                               conv.currency)
                               /\ accumulated' = accumulated (+) SetToBag({
                                      [path |-> p, value |-> conv.conversionValue,
                                       currency |-> conv.currency] })
    /\ UNCHANGED <<pc, pathVars, totalConversions, mcfResults, pipelineCache,
                   contribVars, jobVars, callVars, crm, resultVars, stageVars, retryVars, runVars, hookVars, listVars>>

\* step 3: threshold, ranking, report, persist, running = false; a failed
\* write of the results file throws into the catch of the job
FinishConversionFirst ==
    /\ pc = "paths"
    /\ conversions = <<>>
    /\ totalConversions' = Cardinality(processedContacts)
    /\ \E saved \in BOOLEAN :
          IF saved
          THEN LET result ==
                       ReportOf(pathCounts, Cardinality(processedContacts),
                                [mcfJobStatus EXCEPT
                                    !.processed = Cardinality(processedContacts)])
               IN  /\ mcfResults' = <<result>>
                   /\ allResults' = StoreResult(allResults, mcfJobStatus.conversionType,
                                                result)
                   /\ jobResult' = <<result>>
                   /\ mcfJobStatus' = [mcfJobStatus EXCEPT !.running = FALSE,
                                                           !.completed = TRUE]
          ELSE /\ mcfJobStatus' = [mcfJobStatus EXCEPT !.running = FALSE,
                                                       !.error = <<"results">>]
               /\ UNCHANGED <<mcfResults, allResults, jobResult>>
    /\ pc' = "done"
    /\ UNCHANGED <<pathVars, pathCounts, accumulated, pipelineCache, contribVars,
                   jobVars, callVars, locVars, mcfResponse, stageVars, retryVars, runVars, hookVars, listVars>>

\* the state the request handler leaves to the background job
InitLocate ==
    /\ pc = "locating"
    /\ sourceHistory = <<>>
    /\ conversionTimestamp = 0
    /\ lookbackDays = <<>>
    /\ path = NoPath
    /\ \E conversionType \in ValidTypes :
          /\ mcfJobStatus = StartedJob(conversionType, 10)
          /\ crm \in Crms(conversionType)
    /\ pathCounts = <<>>
    /\ totalConversions = 0
    /\ accumulated = EmptyBag
    /\ mcfResults = <<>>
    /\ pipelineCache = <<>>
    /\ historyEntries = <<>>
    /\ marketingSources = {}
    /\ contribution = NoScore
    /\ jobStatus = <<>>
    /\ portalConfig = NoPortalConfig
    /\ now = 1
    /\ batchRuns = <<>>
    /\ response = <<>>
    /\ apiReplies = <<>>
    /\ contactResult = <<>>
    /\ conversions = <<>>
    /\ processedContacts = {}
    /\ allResults = NoResults
    /\ jobResult = <<>>
    /\ mcfResponse = <<>>
    /\ stageCache = <<>>
    /\ stageClock = 0
    /\ stageCall = <<>>
    /\ retryCall = <<>>
    /\ scoredWith = {}
    /\ hsHistory = <<>>
    /\ storedPercent = <<>>
    /\ workers = <<>>
    /\ listing = <<>>

NextLocate == LocateConversions

\* the locate step on its own
SpecLocate == InitLocate /\ [][NextLocate]_vars

\* the state the request handler leaves to the background job, with a CRM
\* whose lookups succeed or whose search fails
InitConversionFirst ==
    /\ pc = "locating"
    /\ sourceHistory = <<>>
    /\ conversionTimestamp = 0
    /\ lookbackDays = <<>>
    /\ path = NoPath
    /\ \E conversionType \in ValidTypes :
          /\ mcfJobStatus = StartedJob(conversionType, 10)
          /\ crm \in JobCrms(conversionType)
    /\ pathCounts = <<>>
    /\ totalConversions = 0
    /\ accumulated = EmptyBag
    /\ mcfResults = <<>>
    /\ pipelineCache = <<>>
    /\ historyEntries = <<>>
    /\ marketingSources = {}
    /\ contribution = NoScore
    /\ jobStatus = <<>>
    /\ portalConfig = NoPortalConfig
    /\ now = 1
    /\ batchRuns = <<>>
    /\ response = <<>>
    /\ apiReplies = <<>>
    /\ contactResult = <<>>
    /\ conversions = <<>>
    /\ processedContacts = {}
    /\ allResults = NoResults
    /\ jobResult = <<>>
    /\ mcfResponse = <<>>
    /\ stageCache = <<>>
    /\ stageClock = 0
    /\ stageCall = <<>>
    /\ retryCall = <<>>
    /\ scoredWith = {}
    /\ hsHistory = <<>>
    /\ storedPercent = <<>>
    /\ workers = <<>>
    /\ listing = <<>>

NextConversionFirst ==
    LocateConversions \/ BuildPathOfConversion \/ FinishConversionFirst

\* the whole background job of the later revision
SpecConversionFirst == InitConversionFirst /\ [][NextConversionFirst]_vars

----------------------------------------------------------------------------
(* Specification of the contribution scorer: a history and a marketing     *)
(* set are drawn, then computeMarketingContribution is called on them.     *)

REFERRALS == <<"R", "E", "F", "E", "R", "R", "A", "L", "S">>

OFFLINE == <<"O", "F", "F", "L", "I", "N", "E">>

PAID_SEARCH == <<"P", "A", "I", "D", "_", "S", "E", "A", "R", "C", "H">>

\* raw values: sources as HubSpot records them, a source in lower case, a
\* source with surrounding blanks, a blank value and an absent one
ContribValues ==
    { REFERRALS, OFFLINE, PAID_SEARCH,
      <<"p", "a", "i", "d", "_", "s", "e", "a", "r", "c", "h">>,
      <<" ">> \o PAID_SEARCH \o <<" ">>,
      <<" ">>, <<>> }

ContribEntries == [timestamp : { <<>>, <<1>> }, value : ContribValues]

\* the history REFERRALS, OFFLINE, PAID_SEARCH, OFFLINE
ExampleHistory ==
    << [timestamp |-> <<1>>, value |-> REFERRALS],
       [timestamp |-> <<2>>, value |-> OFFLINE],
       [timestamp |-> <<3>>, value |-> PAID_SEARCH],
       [timestamp |-> <<4>>, value |-> OFFLINE] >>

ContribHistories == SeqsUpTo(ContribEntries, MaxHist) \cup { ExampleHistory }

\* marketing sets a portal can have saved
MarketingSets == { {}, { PAID_SEARCH }, { REFERRALS, PAID_SEARCH } }

InitContrib ==
    /\ pc = "ready"
    /\ sourceHistory = <<>>
    /\ conversionTimestamp = 0
    /\ lookbackDays = <<>>
    /\ path = NoPath
    /\ mcfJobStatus = NoJob
    /\ pathCounts = <<>>
    /\ totalConversions = 0
    /\ accumulated = EmptyBag
    /\ mcfResults = <<>>
    /\ pipelineCache = <<>>
    /\ historyEntries \in ContribHistories
    /\ marketingSources \in MarketingSets
    /\ contribution = NoScore
    /\ jobStatus = <<>>
    /\ portalConfig = NoPortalConfig
    /\ now = 1
    /\ batchRuns = <<>>
    /\ response = <<>>
    /\ apiReplies = <<>>
    /\ contactResult = <<>>
    /\ crm = NoCrm
    /\ conversions = <<>>
    /\ processedContacts = {}
    /\ allResults = NoResults
    /\ jobResult = <<>>
    /\ mcfResponse = <<>>
    /\ stageCache = <<>>
    /\ stageClock = 0
    /\ stageCall = <<>>
    /\ retryCall = <<>>
    /\ scoredWith = {}
    /\ hsHistory = <<>>
    /\ storedPercent = <<>>
    /\ workers = <<>>
    /\ listing = <<>>

CallComputeMarketingContribution ==
    /\ pc = "ready"
    /\ pc' = "scored"
    /\ contribution' = <<computeMarketingContribution(historyEntries, marketingSources)>>
    /\ historyEntries' = ArraysOfContribution(historyEntries)[CallerArray]
    /\ UNCHANGED <<pathVars, mcfVars, marketingSources, jobVars, callVars, locVars,
                   resultVars, stageVars, retryVars, runVars, hookVars, listVars>>

NextContrib == CallComputeMarketingContribution

SpecContrib == InitContrib /\ [][NextContrib]_vars

(* One array passed to either function: a caller holds a history and calls *)
(* buildConversionPath or computeMarketingContribution on it.              *)

\* entries with and without a timestamp
CallerEntries == [ timestamp : { <<>>, <<1>>, <<2>> }, value : { <<"a">>, <<"b">> } ]

CallerHistories == SeqsUpTo(CallerEntries, MaxHist)

InitCaller ==
    /\ pc = "ready"
    /\ \E history \in CallerHistories :
          /\ sourceHistory = history
          /\ historyEntries = history
    /\ conversionTimestamp \in ConversionTimes
    /\ lookbackDays \in { <<>>, <<1>> }
    /\ path = NoPath
    /\ mcfJobStatus = NoJob
    /\ pathCounts = <<>>
    /\ totalConversions = 0
    /\ accumulated = EmptyBag
    /\ mcfResults = <<>>
    /\ pipelineCache = <<>>
    /\ marketingSources = { <<"a">> }
    /\ contribution = NoScore
    /\ jobStatus = <<>>
    /\ portalConfig = NoPortalConfig
    /\ now = 1
    /\ batchRuns = <<>>
    /\ response = <<>>
    /\ apiReplies = <<>>
    /\ contactResult = <<>>
    /\ crm = NoCrm
    /\ conversions = <<>>
    /\ processedContacts = {}
    /\ allResults = NoResults
    /\ jobResult = <<>>
    /\ mcfResponse = <<>>
    /\ stageCache = <<>>
    /\ stageClock = 0
    /\ stageCall = <<>>
    /\ retryCall = <<>>
    /\ scoredWith = {}
    /\ hsHistory = <<>>
    /\ storedPercent = <<>>
    /\ workers = <<>>
    /\ listing = <<>>

NextCaller ==
    \/ CallBuildConversionPath
    \/ CallBuildConversionPathFull
    \/ CallComputeMarketingContribution

SpecCaller == InitCaller /\ [][NextCaller]_vars

----------------------------------------------------------------------------
(* The contribution batch job: POST /api/calculate-contribution, its       *)
(* background run, the status endpoint and POST /api/marketing-sources.    *)
(* The handlers run on one event loop: a handler or a background run is    *)
(* interleaved with the others only where it awaits an external call.      *)

DEFAULT_MARKETING_SOURCES ==
    { <<"O", "R", "G", "A", "N", "I", "C", "_", "S", "E", "A", "R", "C", "H">>,
      PAID_SEARCH,
      <<"E", "M", "A", "I", "L", "_", "M", "A", "R", "K", "E", "T", "I", "N", "G">>,
      <<"S", "O", "C", "I", "A", "L", "_", "M", "E", "D", "I", "A">>,
      REFERRALS,
      <<"O", "T", "H", "E", "R", "_", "C", "A", "M", "P", "A", "I", "G", "N", "S">>,
      <<"P", "A", "I", "D", "_", "S", "O", "C", "I", "A", "L">>,
      <<"D", "I", "S", "P", "L", "A", "Y", "_", "A", "D", "S">> }

\* the saved set of the portal, or the default set
getMarketingSources(config) ==
    IF config.marketingSources # <<>> THEN config.marketingSources[1]
    ELSE DEFAULT_MARKETING_SOURCES

\* the selection the settings page saves: it differs from the default set
SavedSourceSets == { { REFERRALS, PAID_SEARCH } }

\* hs_latest_source histories of the listed contacts
BatchHistories == { <<>>, ExampleHistory }

\* new Date(): the clock has not gone back since it was last read
ClockReads == { t \in now..(now + 1) : t <= MaxClock }

\* jobStatus[portalId] as set when a run starts
StartedBatchJob ==
    [ running |-> TRUE, processed |-> 0, updated |-> 0, failed |-> 0,
      skippedNoHistory |-> 0, completedAt |-> <<>>, error |-> <<>> ]

\* the counters of a job, as the responses and the saved result carry them
CountersOf(job) ==
    [ processed |-> job.processed, updated |-> job.updated,
      skippedNoHistory |-> job.skippedNoHistory, failed |-> job.failed ]

AlreadyRunning_never(job) == FALSE

\* jobStatus[portalId]?.running
AlreadyRunning(job) == job # <<>> /\ job[1].running

\* lastAnalysisRun && lastSourcesUpdated &&
\*     new Date(lastAnalysisRun) > new Date(lastSourcesUpdated)
AnalysisBlocked(config) ==
    /\ config.lastAnalysisRun # <<>>
    /\ config.updatedAt # <<>>
    /\ config.lastAnalysisRun[1] > config.updatedAt[1]

\* analysisAllowed of the status endpoint
AnalysisAllowed(config) ==
    IF config.lastAnalysisRun # <<>> /\ config.updatedAt # <<>>
    THEN config.updatedAt[1] > config.lastAnalysisRun[1]
    ELSE ~(config.lastAnalysisRun # <<>> /\ config.updatedAt = <<>>)

\* the status the status endpoint reports
StatusLabel(job, config) ==
    IF job # <<>> /\ job[1].running THEN "running"
    ELSE IF job # <<>> THEN (IF job[1].error # <<>> THEN "error" ELSE "completed")
    ELSE IF config.lastAnalysisRun # <<>> /\ config.lastAnalysisResult # <<>>
         THEN "completed"
    ELSE "idle"

\* the response of the status endpoint
StatusResponse(job, config) ==
    [ status |-> StatusLabel(job, config),
      counters |-> IF job # <<>> THEN <<CountersOf(job[1])>>
                   ELSE IF config.lastAnalysisRun # <<>> /\ config.lastAnalysisResult # <<>>
                        THEN config.lastAnalysisResult
                   ELSE <<>>,
      analysisAllowed |-> IF job # <<>> /\ job[1].running THEN FALSE
                          ELSE AnalysisAllowed(config) ]

OnContactFailure_stopsJob(job) ==
    [job EXCEPT !.failed = @ + 1, !.running = FALSE]

OnContactFailure_abort(job) ==
    [job EXCEPT !.running = FALSE, !.error = <<"contact">>]

\* the catch of the per-contact try
OnContactFailure(job) == [job EXCEPT !.failed = @ + 1]

OnRunFailure_uncaught(job, message) == job

\* the catch of the background run
OnRunFailure(job, message) == [job EXCEPT !.running = FALSE, !.error = <<message>>]

\* the sequence without its i-th element
RemoveAt(seq, i) == SubSeq(seq, 1, i - 1) \o SubSeq(seq, i + 1, Len(seq))

\* POST /api/calculate-contribution, up to its first await
PostCalculateContribution ==
    /\ pc = "serving"
    /\ IF AlreadyRunning(jobStatus)
       THEN /\ response' = [ status |-> "running",
                             counters |-> <<CountersOf(jobStatus[1])>>,
                             analysisAllowed |-> FALSE ]
            /\ UNCHANGED <<jobStatus, batchRuns, scoredWith>>
       ELSE IF AnalysisBlocked(portalConfig)
       THEN /\ response' = [ status |-> "blocked", counters |-> <<>>,
                             analysisAllowed |-> FALSE ]
            /\ UNCHANGED <<jobStatus, batchRuns, scoredWith>>
       ELSE /\ jobStatus' = <<StartedBatchJob>>
            /\ response' = [ status |-> "started", counters |-> <<>>,
                             analysisAllowed |-> FALSE ]
            /\ batchRuns' = Append(batchRuns, [phase |-> "ensure"])
            /\ scoredWith' = {}
    /\ UNCHANGED <<pc, pathVars, mcfVars, contribVars, portalConfig, now, callVars, locVars,
                   resultVars, stageVars, retryVars, hookVars, listVars>>

\* await ensurePropertyExists(portalId): it returns, or it throws into the
\* catch of the background run
EnsureProperty(i) ==
    /\ pc = "serving"
    /\ batchRuns[i].phase = "ensure"
    /\ \E ok \in BOOLEAN :
          IF ok
          THEN /\ batchRuns' = [batchRuns EXCEPT ![i].phase = "loop"]
               /\ UNCHANGED jobStatus
          ELSE /\ batchRuns' = RemoveAt(batchRuns, i)
               /\ jobStatus' = <<OnRunFailure(jobStatus[1], "property")>>
    /\ UNCHANGED <<pc, pathVars, mcfVars, contribVars, portalConfig, now, response, callVars, locVars,
                   resultVars, stageVars, retryVars, runVars, hookVars, listVars>>

\* the fetch of a page of the listing throws into the catch of the run
ListingFails(i) ==
    /\ pc = "serving"
    /\ batchRuns[i].phase = "loop"
    /\ batchRuns' = RemoveAt(batchRuns, i)
    /\ jobStatus' = <<OnRunFailure(jobStatus[1], "listing")>>
    /\ UNCHANGED <<pc, pathVars, mcfVars, contribVars, portalConfig, now, response, callVars, locVars,
                   resultVars, stageVars, retryVars, runVars, hookVars, listVars>>

CountContact_insideTry(job, ok, totalChanges) ==
    IF ~ok THEN OnContactFailure(job)
    ELSE IF totalChanges = 0
    THEN [job EXCEPT !.skippedNoHistory = @ + 1, !.processed = @ + 1]
    ELSE [job EXCEPT !.updated = @ + 1, !.processed = @ + 1]

\* the try/catch around processContact in the loop over the listed
\* contacts: the counters after processContact returned a score of
\* totalChanges entries (ok), or threw
CountContact(job, ok, totalChanges) ==
    LET counted == IF ~ok THEN OnContactFailure(job)
                   ELSE IF totalChanges = 0
                   THEN [job EXCEPT !.skippedNoHistory = @ + 1]
                   ELSE [job EXCEPT !.updated = @ + 1]
    IN  [counted EXCEPT !.processed = @ + 1]

\* the body of the loop over the listed contacts for a contact of the
\* given history: processContact returns its score (ok), or throws
ContactPass(i, history, ok) ==
    /\ pc = "serving"
    /\ batchRuns[i].phase = "loop"
    /\ jobStatus[1].processed < MaxListed
    /\ LET marketingSources_ == getMarketingSources(portalConfig)
           result == computeMarketingContribution(history, marketingSources_)
       IN  /\ jobStatus' = <<CountContact(jobStatus[1], ok, result.totalChanges)>>
           /\ scoredWith' = IF ok THEN scoredWith \cup {marketingSources_}
                            ELSE scoredWith
    /\ UNCHANGED <<pc, pathVars, mcfVars, contribVars, portalConfig, now, batchRuns,
                   response, callVars, locVars, resultVars, stageVars, retryVars, hookVars, listVars>>

\* one pass of the loop over the listed contacts
BatchProcessContact(i) ==
    \E history \in BatchHistories, ok \in BOOLEAN : ContactPass(i, history, ok)

\* the listing has ended: running = false, completedAt, and the run is
\* recorded in the portal config; a failed write of the config file throws
\* into the catch of the run
FinishBatch(i) ==
    /\ pc = "serving"
    /\ batchRuns[i].phase = "loop"
    /\ \E t \in ClockReads, saved \in BOOLEAN :
          LET ended == [jobStatus[1] EXCEPT !.running = FALSE, !.completedAt = <<t>>]
          IN  /\ now' = t
              /\ IF saved
                 THEN /\ jobStatus' = <<ended>>
                      /\ portalConfig' =
                            [portalConfig EXCEPT
                                !.lastAnalysisRun = <<t>>,
                                !.lastAnalysisResult = <<CountersOf(ended)>>]
                 ELSE /\ jobStatus' = <<OnRunFailure(ended, "config")>>
                      /\ UNCHANGED portalConfig
    /\ batchRuns' = RemoveAt(batchRuns, i)
    /\ UNCHANGED <<pc, pathVars, mcfVars, contribVars, response, callVars, locVars, resultVars, stageVars, retryVars, runVars, hookVars, listVars>>

\* GET /api/calculate-contribution/status
GetCalculateContributionStatus ==
    /\ pc = "serving"
    /\ response' = StatusResponse(jobStatus, portalConfig)
    /\ UNCHANGED <<pc, pathVars, mcfVars, contribVars, jobStatus, portalConfig, now,
                   batchRuns, callVars, locVars, resultVars, stageVars, retryVars, runVars, hookVars, listVars>>

\* POST /api/marketing-sources with a valid selection
PostMarketingSources ==
    /\ pc = "serving"
    /\ \E selectedSources \in SavedSourceSets, t \in ClockReads :
          /\ portalConfig' = [portalConfig EXCEPT
                                 !.marketingSources = <<selectedSources>>,
                                 !.updatedAt = <<t>>]
          /\ now' = t
    /\ response' = [status |-> "saved", counters |-> <<>>, analysisAllowed |-> FALSE]
    /\ UNCHANGED <<pc, pathVars, mcfVars, contribVars, jobStatus, batchRuns, callVars, locVars,
                   resultVars, stageVars, retryVars, runVars, hookVars, listVars>>

\* a step of a background run
BackgroundStep ==
    \E i \in 1..Len(batchRuns) :
        EnsureProperty(i) \/ ListingFails(i) \/ BatchProcessContact(i) \/ FinishBatch(i)

InitJob ==
    /\ pc = "serving"
    /\ sourceHistory = <<>>
    /\ conversionTimestamp = 0
    /\ lookbackDays = <<>>
    /\ path = NoPath
    /\ mcfJobStatus = NoJob
    /\ pathCounts = <<>>
    /\ totalConversions = 0
    /\ accumulated = EmptyBag
    /\ mcfResults = <<>>
    /\ pipelineCache = <<>>
    /\ historyEntries = <<>>
    /\ marketingSources = {}
    /\ contribution = NoScore
    /\ jobStatus = <<>>
    /\ portalConfig = NoPortalConfig
    /\ now = 1
    /\ batchRuns = <<>>
    /\ response = <<>>
    /\ apiReplies = <<>>
    /\ contactResult = <<>>
    /\ crm = NoCrm
    /\ conversions = <<>>
    /\ processedContacts = {}
    /\ allResults = NoResults
    /\ jobResult = <<>>
    /\ mcfResponse = <<>>
    /\ stageCache = <<>>
    /\ stageClock = 0
    /\ stageCall = <<>>
    /\ retryCall = <<>>
    /\ scoredWith = {}
    /\ hsHistory = <<>>
    /\ storedPercent = <<>>
    /\ workers = <<>>
    /\ listing = <<>>

NextJob ==
    \/ PostCalculateContribution
    \/ BackgroundStep
    \/ GetCalculateContributionStatus
    \/ PostMarketingSources

SpecJob == InitJob /\ [][NextJob]_vars

\* a background run that can take a step takes one: every external call
\* returns or fails
SpecJobLive == SpecJob /\ WF_vars(BackgroundStep)

----------------------------------------------------------------------------
(* processContact and the requests it makes, inside the try/catch of the   *)
(* loop of the contribution batch run.  The replies of the HubSpot API     *)
(* are drawn with the contact; delays are counted in seconds.              *)

\* the statuses the API answers a request with: ok, rate limited, server
\* error
ApiStatuses == { 200, 429, 500 }

\* the replies to the successive requests made for one contact
ContactReplies == [ 1..2 -> ApiStatuses ]

\* hubspotApi: one request; it resolves when the reply is ok and throws an
\* error carrying the status otherwise
hubspotApi(reply) == [ ok |-> reply = 200, status |-> reply ]

\* processContact: the GET of the history, the score, the PATCH of the
\* property.  requests are the replies received, in order; waits are the
\* delays slept between requests.
processContact(history, sources, replies) ==
    LET got == hubspotApi(replies[1])
    IN  IF ~got.ok
        THEN [ ok |-> FALSE, totalChanges |-> 0, requests |-> <<replies[1]>>,
               waits |-> <<>> ]
        ELSE LET score == computeMarketingContribution(history, sources)
                 patched == hubspotApi(replies[2])
             IN  [ ok |-> patched.ok, totalChanges |-> score.totalChanges,
                   requests |-> <<replies[1], replies[2]>>, waits |-> <<>> ]

\* the source values of the histories the API returns
ContactEntries == { ExampleHistory[k] : k \in 1..Len(ExampleHistory) }

ContactHistories == SeqsUpTo(ContactEntries, MaxHist)

InitContact ==
    /\ pc = "looping"
    /\ sourceHistory = <<>>
    /\ conversionTimestamp = 0
    /\ lookbackDays = <<>>
    /\ path = NoPath
    /\ mcfJobStatus = NoJob
    /\ pathCounts = <<>>
    /\ totalConversions = 0
    /\ accumulated = EmptyBag
    /\ mcfResults = <<>>
    /\ pipelineCache = <<>>
    /\ historyEntries \in ContactHistories
    /\ marketingSources \in { getMarketingSources(NoPortalConfig) }
    /\ contribution = NoScore
    /\ jobStatus = <<StartedBatchJob>>
    /\ portalConfig = NoPortalConfig
    /\ now = 1
    /\ batchRuns = <<>>
    /\ response = <<>>
    /\ apiReplies \in ContactReplies
    /\ contactResult = <<>>
    /\ crm = NoCrm
    /\ conversions = <<>>
    /\ processedContacts = {}
    /\ allResults = NoResults
    /\ jobResult = <<>>
    /\ mcfResponse = <<>>
    /\ stageCache = <<>>
    /\ stageClock = 0
    /\ stageCall = <<>>
    /\ retryCall = <<>>
    /\ scoredWith = {}
    /\ hsHistory = <<>>
    /\ storedPercent = <<>>
    /\ workers = <<>>
    /\ listing = <<>>

\* one pass of the loop of the batch run: processContact under try/catch
LoopOverContact ==
    /\ pc = "looping"
    /\ pc' = "counted"
    /\ LET result == processContact(historyEntries, marketingSources, apiReplies)
       IN  /\ contactResult' = <<result>>
           /\ jobStatus' = <<CountContact(jobStatus[1], result.ok, result.totalChanges)>>
    /\ UNCHANGED <<pathVars, mcfVars, contribVars, portalConfig, now, batchRuns,
                   response, apiReplies, locVars, resultVars, stageVars, retryVars, runVars, hookVars, listVars>>

NextContact == LoopOverContact

SpecContact == InitContact /\ [][NextContact]_vars

----------------------------------------------------------------------------
(* Properties of the path builder *)

Built == pc \in {"built", "builtFull"}

Range(f) == { f[i] : i \in DOMAIN f }

\* the window each revision documents for itself: server.js,
\* [conversionTime - lookbackDays, conversionTime]; the later revision,
\* every entry before the conversion that carries a timestamp
DocumentedWindow(e) ==
    IF pc = "built"
    THEN /\ TsNumber(e) >= conversionTimestamp - LookbackOrDefault(lookbackDays) * DayMs
         /\ TsNumber(e) <= conversionTimestamp
    ELSE TsNumber(e) > 0 /\ TsNumber(e) <= conversionTimestamp

\* indices of the entries that give a token
TokenIndices ==
    { i \in 1..Len(sourceHistory) :
        DocumentedWindow(sourceHistory[i]) /\ NormalizeValue(sourceHistory[i]) # <<>> }

\* the normalized values of the entries I in ascending timestamp order,
\* entries of equal timestamp in their order in the history
TokensInOrder(I) ==
    LET Before(j, i) ==
            \/ TsNumber(sourceHistory[j]) < TsNumber(sourceHistory[i])
            \/ TsNumber(sourceHistory[j]) = TsNumber(sourceHistory[i]) /\ j < i
        rank == [i \in I |-> 1 + Cardinality({ j \in I : Before(j, i) })]
    IN  [k \in 1..Cardinality(I) |->
            NormalizeValue(sourceHistory[CHOOSE i \in I : rank[i] = k])]

OrderedTokens == TokensInOrder(TokenIndices)

\* one token per maximal run of equal consecutive tokens
OneTokenPerRun(tokens) ==
    LET starts == { k \in 1..Len(tokens) : k = 1 \/ tokens[k] # tokens[k - 1] }
        nth == [k \in starts |-> Cardinality({ r \in starts : r <= k })]
    IN  [m \in 1..Cardinality(starts) |-> tokens[CHOOSE k \in starts : nth[k] = m]]

\* C1: the path returned by buildConversionPath has no two adjacent tokens
\* that are equal, for every history and every conversion timestamp.
C1_NoAdjacentEqualTokens ==
    Built => \A i \in 1..(Len(path) - 1) : path[i] # path[i + 1]

\* a path built from a history in which two consecutive entries repeat a value
C1_Witness ==
    /\ pc = "built"
    /\ Len(path) = 2
    /\ LET tokens == OrderedTokens
       IN  /\ Len(tokens) >= 3
           /\ \E k \in 2..Len(tokens) : tokens[k] = tokens[k - 1]

\* C2: the path is the in-window entries' normalized values in ascending
\* timestamp order, each maximal run of equal consecutive values replaced
\* by one token; a value that recurs after a different one is kept again.
C2_PathIsRunCollapsedWindow ==
    (Built /\ TokenIndices # {}) => path = OneTokenPerRun(OrderedTokens)

\* A, A, B recorded out of order becomes A, B
C2_Witness ==
    /\ pc = "built"
    /\ sourceHistory = << [timestamp |-> <<2>>, value |-> <<"b">>],
                          [timestamp |-> <<1>>, value |-> <<"a">>],
                          [timestamp |-> <<1>>, value |-> <<"a">>] >>
    /\ path = << <<"A">>, <<"B">> >>

\* C3: the path is ["UNKNOWN"] when the history is empty and when every
\* entry of the history is later than the conversion timestamp.
C3_UnknownWhenNothingBeforeConversion ==
    (Built /\ \A i \in 1..Len(sourceHistory) :
                 TsNumber(sourceHistory[i]) > conversionTimestamp)
        => path = <<UNKNOWN>>

\* a non-empty history whose entries are all later than the conversion
C3_Witness ==
    /\ Built
    /\ Len(sourceHistory) >= 2
    /\ \A i \in 1..Len(sourceHistory) :
          /\ TsNumber(sourceHistory[i]) > conversionTimestamp
          /\ NormalizeValue(sourceHistory[i]) # <<>>
    /\ path = <<UNKNOWN>>

\* the value is empty or holds only white space
IsBlank(value) == \A i \in 1..Len(value) : value[i] = " "

\* C29: for every input buildConversionPath returns a path of length at
\* least 1: when the window holds entries but all of their values are
\* empty or whitespace, the result is ["UNKNOWN"], never an empty path.
C29_PathNeverEmpty ==
    Built =>
        /\ Len(path) >= 1
        /\ \A k \in 1..Len(path) : Len(path[k]) >= 1
        /\ ( /\ sourceHistory # <<>>
             /\ \A i \in 1..Len(sourceHistory) : IsBlank(sourceHistory[i].value) )
              => path = <<UNKNOWN>>

\* two entries inside the window of either revision, one with an empty
\* value and one with a space for a value
C29_Witness ==
    /\ Built
    /\ conversionTimestamp = 3
    /\ sourceHistory = << [timestamp |-> <<1>>, value |-> <<" ">>],
                          [timestamp |-> <<2>>, value |-> <<>>] >>
    /\ path = <<UNKNOWN>>

\* the window of the claim: 0 < timestamp <= conversionTimestamp and, when
\* a lookback of N days is supplied, timestamp >= conversionTimestamp - N days
ClaimedWindow(e) ==
    /\ 0 < TsNumber(e)
    /\ TsNumber(e) <= conversionTimestamp
    /\ (pc = "built" /\ lookbackDays # <<>>)
          => TsNumber(e) >= conversionTimestamp - lookbackDays[1] * DayMs

\* C4: the path is built from exactly the entries with
\* 0 < timestamp <= conversionTimestamp (and timestamp >= conversionTimestamp
\* - N days when a lookback of N days is supplied); an entry whose timestamp
\* is 0, negative or absent never contributes a token.  Stated for the calls
\* that supply a lookback and for the calls of the revision that takes none.
C4_OnlyPositiveInWindowEntries ==
    ((pc = "built" /\ lookbackDays # <<>>) \/ pc = "builtFull")
        => path = PathOfEntries(SortByTimestamp(SelectSeq(sourceHistory, ClaimedWindow)))

\* C5: without a lookback window every entry with
\* 0 < timestamp <= conversionTimestamp is eligible for the path, however
\* long before the conversion it was recorded: its token is in the path.
C5_WholeHistoryEligibleWithoutLookback ==
    (Built /\ lookbackDays = <<>>)
        => \A i \in 1..Len(sourceHistory) :
              ( /\ 0 < TsNumber(sourceHistory[i])
                /\ TsNumber(sourceHistory[i]) <= conversionTimestamp
                /\ NormalizeValue(sourceHistory[i]) # <<>> )
              => NormalizeValue(sourceHistory[i]) \in Range(path)

\* raw values that differ from "A" only in letter case or surrounding blanks
VariantsOfA == { <<"a">>, <<"A">>, <<" ", "a", " ">> }

HasNoLowerCase(token) == \A k \in 1..Len(token) : token[k] \notin {"a", "b"}

HasNoOuterBlank(token) ==
    token # <<>> /\ token[1] # " " /\ token[Len(token)] # " "

\* C6: path tokens are the history values trimmed and upper-cased, and
\* entries whose values differ only in letter case or surrounding
\* whitespace collapse to a single token.
C6_TokensNormalizedBeforeCollapse ==
    Built =>
        /\ \A k \in 1..Len(path) : HasNoLowerCase(path[k]) /\ HasNoOuterBlank(path[k])
        /\ ( /\ TokenIndices # {}
             /\ \A i \in TokenIndices : sourceHistory[i].value \in VariantsOfA )
           => path = << <<"A">> >>

\* "a" then "A" then " a ", all in the window, give the one-token path ["A"]
C6_Witness ==
    /\ Built
    /\ Cardinality(TokenIndices) = 3
    /\ { sourceHistory[i].value : i \in TokenIndices } = VariantsOfA
    /\ path = << <<"A">> >>

----------------------------------------------------------------------------
(* Properties of the aggregation and of the ranking *)

\* what the claim compares of a bucket: key, count, total value, currencies
BucketFacts(buckets) ==
    { [key |-> buckets[i].key, conversions |-> buckets[i].conversions,
       totalValue |-> buckets[i].totalValue,
       currencies |-> Range(buckets[i].currencies)] : i \in 1..Len(buckets) }

\* the buckets obtained by accumulating a bag of conversions in one fixed order
RECURSIVE AccumulateBag(_, _)
AccumulateBag(buckets, bag) ==
    IF BagToSet(bag) = {} THEN buckets
    ELSE LET c == CHOOSE x \in BagToSet(bag) : TRUE
         IN  AccumulateBag(AccumulateInto(buckets, c.path, c.value, c.currency),
                           bag (-) SetToBag({c}))

\* C7: for any two processing orders of the same multiset of (path, value,
\* currency) conversions the accumulated buckets are identical (same keys;
\* per key the same conversions count, total value and currency set):
\* whatever the order processed, the buckets are those of the fixed order.
C7_BucketsIndependentOfOrder ==
    BucketFacts(pathCounts) = BucketFacts(AccumulateBag(<<>>, accumulated))

\* C8: two conversions are accumulated into the same bucket if and only if
\* their paths are the same token sequence: there is one bucket per
\* distinct path, and it counts exactly the conversions of that path.
C8_OneBucketPerPath ==
    /\ Len(pathCounts) = Cardinality({ c.path : c \in BagToSet(accumulated) })
    /\ \A i \in 1..Len(pathCounts) :
          pathCounts[i].conversions =
              BagCardinality([c \in { x \in BagToSet(accumulated) :
                                        x.path = pathCounts[i].path }
                                |-> CopiesIn(c, accumulated)])

JobDone == pc = "done" /\ Len(mcfResults) = 1

\* ceil(n / d) on integers
CeilDiv(n, d) == (n + d - 1) \div d

\* C9: thresholdCount equals max(1, ceil(totalConversions * thresholdPct /
\* 100)) for every totalConversions >= 0 and every thresholdPct.
C9_ThresholdCountIsCeilOfShare ==
    JobDone =>
        mcfResults[1].thresholdCount =
            MathMax(1, CeilDiv(mcfResults[1].totalConversions * mcfResults[1].thresholdPct,
                               100))

\* C10: the ranked report contains exactly the aggregated paths whose
\* conversions >= thresholdCount, each once and with its own count.
C10_ReportKeepsExactlyQualifyingPaths ==
    JobDone =>
        LET rows == mcfResults[1].paths
            kept == { i \in 1..Len(pathCounts) :
                        pathCounts[i].conversions >= mcfResults[1].thresholdCount }
        IN  /\ Len(rows) = Cardinality(kept)
            /\ \A i \in kept :
                  \E r \in 1..Len(rows) :
                      /\ rows[r].pathKey = pathCounts[i].key
                      /\ rows[r].conversions = pathCounts[i].conversions

\* a report that keeps a path with exactly thresholdCount conversions and
\* omits one with thresholdCount - 1
C10_Witness ==
    /\ JobDone
    /\ mcfResults[1].thresholdCount >= 2
    /\ \E i, j \in 1..Len(pathCounts) :
          /\ pathCounts[i].conversions = mcfResults[1].thresholdCount
          /\ pathCounts[j].conversions = mcfResults[1].thresholdCount - 1
          /\ \E r \in 1..Len(mcfResults[1].paths) :
                mcfResults[1].paths[r].pathKey = pathCounts[i].key
          /\ \A r \in 1..Len(mcfResults[1].paths) :
                mcfResults[1].paths[r].pathKey # pathCounts[j].key

\* the bucket a row of the report was made from
BucketOfRow(row) == pathCounts[BucketIndex(pathCounts, row.pathKey)]

\* C11: in the ranked report the paths are ordered by conversions
\* descending, and any two paths with equal conversions are ordered by
\* totalValue descending.
C11_ReportRankedByConversionsThenValue ==
    JobDone =>
        LET rows == mcfResults[1].paths
        IN  \A r, t \in 1..Len(rows) :
                r < t =>
                    LET a == BucketOfRow(rows[r])
                        b == BucketOfRow(rows[t])
                    IN  \/ a.conversions > b.conversions
                        \/ /\ a.conversions = b.conversions
                           /\ ~NumberLess(a.totalValue, b.totalValue)

\* a report in which a path accumulated later than another one of equal
\* conversions, but of larger total value, is ranked in front of it, and
\* both follow a path of more conversions
C11_Witness ==
    /\ JobDone
    /\ Len(mcfResults[1].paths) = 3
    /\ LET rows == mcfResults[1].paths
           first == BucketOfRow(rows[1])
           second == BucketOfRow(rows[2])
           third == BucketOfRow(rows[3])
       IN  /\ first.conversions > second.conversions
           /\ second.conversions = third.conversions
           /\ NumberLess(third.totalValue, second.totalValue)
           /\ BucketIndex(pathCounts, second.key) > BucketIndex(pathCounts, third.key)

----------------------------------------------------------------------------
(* Properties of the contribution scorer *)

Scored == pc = "scored" /\ Len(contribution) = 1

\* the entries whose trimmed value is not empty
ValidEntries == { i \in 1..Len(historyEntries) : trim(historyEntries[i].value) # <<>> }

C13_EmptyHistoryScoresZero ==
    (Scored /\ ValidEntries = {}) =>
        /\ contribution[1].totalChanges = 0
        /\ contribution[1].percent = NumberOfInt(0)

\* a history of blank and empty values only has been scored
C13_Witness ==
    /\ Scored
    /\ Len(historyEntries) >= 2
    /\ ValidEntries = {}
    /\ \E i \in 1..Len(historyEntries) : historyEntries[i].value = <<" ">>
    /\ contribution[1].percent = NumberOfInt(0)
    /\ contribution[1].totalChanges = 0

\* C14: contribution scoring upper-cases each trimmed value before testing
\* membership in the marketing set: an entry recorded as "paid_search"
\* counts towards marketingCount when PAID_SEARCH is in the marketing set.
C14_UpperCasesBeforeMembership ==
    Scored =>
        contribution[1].marketingChanges =
            Cardinality({ i \in ValidEntries :
                            NormalizeValue(historyEntries[i]) \in marketingSources })

----------------------------------------------------------------------------
(* Properties of the contribution batch job *)

BatchRunning == jobStatus # <<>> /\ jobStatus[1].running

StatusMoves ==
    { <<"idle", "running">>, <<"running", "completed">>, <<"running", "error">>,
      <<"completed", "running">>, <<"error", "running">> }

\* C17: a job's status only moves idle -> running -> completed or error
\* (and from there to running when a new run is started), and once a run
\* has left the running state its processed, updated, failed and
\* skippedNoHistory counters never change again until a new run is started.
C17_StatusMovesForwardCountersFrozen ==
    [][ LET before == StatusLabel(jobStatus, portalConfig)
            after == StatusLabel(jobStatus', portalConfig')
        IN  /\ before # after => <<before, after>> \in StatusMoves
            /\ (before # "running" /\ after # "running") =>
                  /\ after = before
                  /\ jobStatus # <<>> =>
                        CountersOf(jobStatus'[1]) = CountersOf(jobStatus[1]) ]_vars

\* a second run has ended in error after the first one completed, and the
\* status endpoint has reported it with the counters the run ended with
C17_Witness ==
    /\ jobStatus # <<>>
    /\ ~jobStatus[1].running
    /\ jobStatus[1].error # <<>>
    /\ jobStatus[1].processed >= 1
    /\ portalConfig.lastAnalysisRun # <<>>
    /\ batchRuns = <<>>
    /\ response # <<>>
    /\ response.status = "error"
    /\ response.counters = <<CountersOf(jobStatus[1])>>

C19_ContactFailureIsIsolated ==
    [][ \A i \in 1..Len(batchRuns), history \in BatchHistories :
            ContactPass(i, history, FALSE) =>
                /\ jobStatus'[1].failed = jobStatus[1].failed + 1
                /\ jobStatus'[1].processed = jobStatus[1].processed + 1
                /\ jobStatus'[1].updated = jobStatus[1].updated
                /\ jobStatus'[1].skippedNoHistory = jobStatus[1].skippedNoHistory
                /\ jobStatus'[1].running
                /\ jobStatus'[1].error = <<>>
                /\ batchRuns' = batchRuns ]_vars

\* a run in which a contact failed went on to update another contact and
\* ended as completed
C19_Witness ==
    /\ jobStatus # <<>>
    /\ ~jobStatus[1].running
    /\ jobStatus[1].error = <<>>
    /\ jobStatus[1].completedAt # <<>>
    /\ jobStatus[1].failed = 1
    /\ jobStatus[1].updated = 1
    /\ jobStatus[1].processed = 2

----------------------------------------------------------------------------
(* Properties of the closed-won MCF run *)

\* C20: when the pipeline stages cannot be resolved for a closed-won MCF
\* run (the pipeline metadata fetch fails), the run is aborted and the job
\* status becomes error with a message; it does not end as completed with
\* a report.  The stages were not resolved when the run has looked them up
\* for a contact and the cache holds none at its end.
C20_UnresolvedStagesEndInError ==
    ( /\ pc = "done"
      /\ mcfJobStatus.conversionType = "closed_won"
      /\ mcfJobStatus.processed >= 1
      /\ pipelineCache = <<>> )
        => /\ mcfJobStatus.error # <<>>
           /\ ~mcfJobStatus.completed
           /\ mcfResults = <<>>

----------------------------------------------------------------------------
(* Properties of the requests made for a contact of a batch run *)

\* maxRetries of hubspotApiWithRetry: the attempt cap is one more
RetryCap == 3

\* the delays of the exponential backoff, 2 ^ (attempt + 1) seconds
BackoffDelays == [ attempt \in 1..RetryCap |-> 2 ^ attempt ]

\* C21: a rate-limited (HTTP 429) call made for one contact during a
\* contribution batch run is retried with exponential backoff, up to the
\* attempt cap, before that contact is counted as failed: when the run
\* counted the contact as failed and the last reply received for it was a
\* 429, the rate-limited call was made RetryCap + 1 times, with the
\* backoff delays slept in between.
C21_RateLimitedCallRetriedBeforeFailed ==
    ( /\ pc = "counted"
      /\ jobStatus[1].failed = 1
      /\ contactResult[1].requests[Len(contactResult[1].requests)] = 429 )
        => LET requests == contactResult[1].requests
               first == Len(requests) - RetryCap
           IN  /\ first >= 1
               /\ \A k \in first..Len(requests) : requests[k] = 429
               /\ contactResult[1].waits = BackoffDelays

----------------------------------------------------------------------------
(* Properties of the conversion-first MCF job *)

\* the conversions counted in the bucket of the given key, 0 without one
CountedUnder(buckets, key) ==
    IF BucketIndex(buckets, key) = 0 THEN 0
    ELSE buckets[BucketIndex(buckets, key)].conversions

\* the keys of the buckets
KeysOf(buckets) == { buckets[i].key : i \in 1..Len(buckets) }

\* C22: in an MCF run each entity contributes to at most one bucket and
\* adds at most 1 to the sum of conversions, and a further conversion
\* event for an entity that was already processed is dropped, not merged:
\* a pass of the loop raises the count of at most one bucket, by one, and
\* only for a contact not processed before; the pass of a contact that was
\* processed before leaves the buckets and the set of contacts as they
\* are; so the buckets never count more conversions than there are
\* contacts processed.
C22_EntityCountedAtMostOnce ==
    [][ /\ SumConversions(pathCounts') <= Cardinality(processedContacts')
        /\ \A key \in KeysOf(pathCounts) :
              CountedUnder(pathCounts', key) >= CountedUnder(pathCounts, key)
        /\ SumConversions(pathCounts') <= SumConversions(pathCounts) + 1
        /\ SumConversions(pathCounts') > SumConversions(pathCounts)
              => /\ Head(conversions).contactId \notin processedContacts
                 /\ processedContacts' =
                        processedContacts \cup { Head(conversions).contactId }
        /\ ( /\ pc = "paths"
             /\ conversions # <<>>
             /\ conversions' # conversions
             /\ Head(conversions).contactId \in processedContacts )
              => /\ pathCounts' = pathCounts
                 /\ processedContacts' = processedContacts ]_vars

\* two conversions were located for one contact, and the run ended with
\* that contact counted once
C22_Witness ==
    /\ pc = "done"
    /\ mcfJobStatus.completed
    /\ mcfJobStatus.converting = 2
    /\ processedContacts = { 1 }
    /\ SumConversions(pathCounts) = 1
    /\ mcfResults[1].totalConversions = 1

----------------------------------------------------------------------------
(* Properties of the conversion locators of the later revision *)

\* the closed-won stage ids the run located with
StagesOfRun == IF pipelineCache = <<>> THEN {} ELSE pipelineCache[1]

\* the events of the CRM that qualify inside the window of the run, each
\* with its timestamp, value and currency
QualifyingEvents ==
    LET type == mcfJobStatus.conversionType
        start == mcfJobStatus.startDate
        end == mcfJobStatus.endDate
        ids == 1..Len(crm.events)
    IN  CASE type = "meeting_booked" ->
                 { [ id |-> id, ts |-> MeetingTs(crm.events[id]),
                     value |-> Zero, currency |-> "" ] :
                     id \in { i \in ids : Between(crm.events[i].created, start, end) } }
          [] type = "deal_created" ->
                 { [ id |-> id, ts |-> crm.events[id].created,
                     value |-> crm.events[id].value,
                     currency |-> crm.events[id].currency ] :
                     id \in { i \in ids : Between(crm.events[i].created, start, end) } }
          [] type = "closed_won" ->
                 { [ id |-> id, ts |-> ClosedWonTs(crm.events[id], StagesOfRun)[1],
                     value |-> crm.events[id].value,
                     currency |-> crm.events[id].currency ] :
                     id \in { i \in ids :
                                /\ crm.events[i].stage \in StagesOfRun
                                /\ crm.events[i].closedate # <<>>
                                /\ Between(crm.events[i].closedate[1], start, end)
                                /\ <<"fetch", i>> \notin crm.failed
                                /\ ClosedWonTs(crm.events[i], StagesOfRun) # <<>>
                                /\ Between(ClosedWonTs(crm.events[i], StagesOfRun)[1],
                                           start, end) } }
          [] OTHER -> {}

\* the qualifying events found to be associated with the given contact
QualifyingEventsOf(cId) ==
    { e \in QualifyingEvents :
        /\ <<"event", e.id>> \notin crm.failed
        /\ cId \in crm.events[e.id].contacts }

\* the run located meetings or deals
LocatedByEvents ==
    /\ pc = "paths"
    /\ mcfJobStatus.conversionType \in { "meeting_booked", "deal_created", "closed_won" }

HasEventBeforeWindow(cId) ==
    LET type == mcfJobStatus.conversionType
        start == mcfJobStatus.startDate
    IN  \E id \in 1..Len(crm.events) :
            /\ cId \in crm.events[id].contacts
            /\ CASE type = "meeting_booked" -> MeetingTs(crm.events[id]) < start
                 [] type = "deal_created" -> crm.events[id].created < start
                 [] type = "closed_won" ->
                        \E k \in 1..Len(crm.events[id].history) :
                            /\ crm.events[id].history[k].value \in StagesOfRun
                            /\ crm.events[id].history[k].timestamp[1] < start
                 [] OTHER -> FALSE

\* every lookup of the run succeeded
EveryLookupSucceeded == crm.failed = {}

\* C24: a contact that has a qualifying event (meeting, deal, or entry into
\* a closed-won stage) dated before the window start is never included in
\* the located conversions, even when it also has a qualifying event
\* inside the window.
C24_EarlierEventExcludes ==
    LocatedByEvents =>
        \A k \in 1..Len(conversions) :
            ~HasEventBeforeWindow(conversions[k].contactId)

\* without a failing lookup such a contact is left out
EarlierEventExcludesWhenLookupsSucceed ==
    (LocatedByEvents /\ EveryLookupSucceeded) =>
        \A k \in 1..Len(conversions) :
            ~HasEventBeforeWindow(conversions[k].contactId)

\* a lookup made while verifying the first-ever status of the contact
\* failed: the list of its meetings or deals, or the fetch of one of them
VerificationLookupFailed(cId) ==
    /\ QualifyingEventsOf(cId) # {}
    /\ \/ <<"contact", cId>> \in crm.failed
       \/ \E id \in 1..Len(crm.events) :
             /\ cId \in crm.events[id].contacts
             /\ <<"fetch", id>> \in crm.failed

\* C25: when a lookup made while verifying an entity's first-ever status
\* fails (the entity's association list or the fetch of one of its
\* associated meetings or deals), that entity is left out of the located
\* conversions, and the locate operation goes on with the other entities:
\* it ends in the error of the run only when the search itself failed.
C25_FailedVerificationSkipsEntity ==
    /\ (pc = "done" /\ mcfJobStatus.error # <<>>) => <<"search">> \in crm.failed
    /\ LocatedByEvents =>
          \A cId \in ContactIds :
              VerificationLookupFailed(cId) =>
                  \A k \in 1..Len(conversions) : conversions[k].contactId # cId

\* C26: every conversion event that reaches aggregation has its conversion
\* timestamp inside the requested window [start, end], for all four
\* conversion kinds.
C26_ConversionsInsideWindow ==
    pc = "paths" =>
        \A k \in 1..Len(conversions) :
            Between(conversions[k].conversionTimestamp,
                    mcfJobStatus.startDate, mcfJobStatus.endDate)

\* the same, for the kinds other than the meetings
ConversionsInsideWindowButMeetings ==
    (pc = "paths" /\ mcfJobStatus.conversionType # "meeting_booked") =>
        \A k \in 1..Len(conversions) :
            Between(conversions[k].conversionTimestamp,
                    mcfJobStatus.startDate, mcfJobStatus.endDate)

\* the qualifying deals of the contact that the located conversion can
\* have been taken from
DealsBehind(conv) ==
    { e \in QualifyingEventsOf(conv.contactId) :
        /\ e.ts = conv.conversionTimestamp
        /\ e.value = conv.conversionValue
        /\ e.currency = conv.currency }

\* the located conversion is flagged approximate: true
FlaggedApproximate(conv) ==
    "approximate" \in DOMAIN conv /\ conv.approximate = TRUE

\* C27: a closed-won conversion whose timestamp was taken from the
\* closedate fallback (no stage-history entry into a closed-won stage) is
\* flagged approximate: true in the located result, and one whose
\* timestamp comes from the stage history is not flagged.
C27_FallbackFlaggedApproximate ==
    (pc = "paths" /\ mcfJobStatus.conversionType = "closed_won") =>
        \A k \in 1..Len(conversions) :
            LET conv == conversions[k]
                deals == DealsBehind(conv)
            IN  /\ (\A e \in deals :
                       FirstClosedWon(crm.events[e.id], StagesOfRun) = <<>>)
                       => FlaggedApproximate(conv)
                /\ (\A e \in deals :
                       FirstClosedWon(crm.events[e.id], StagesOfRun) # <<>>)
                       => ~FlaggedApproximate(conv)

\* the deals of the contact that getConversionTimestamp can read
ReadableWonDeals(cId) ==
    { id \in EventsOfContact(crm, cId) :
        /\ <<"fetch", id>> \notin crm.failed
        /\ crm.events[id].stage \in StagesOfRun }

\* the earlier revision's getConversionTimestamp flags exactly the
\* timestamps taken from a closedate
ContactFirstFlagsFallback ==
    (pc = "paths" /\ mcfJobStatus.conversionType = "closed_won") =>
        \A cId \in ContactIds :
            LET located == getConversionTimestampClosedWon(crm, cId, StagesOfRun)
            IN  located # <<>> =>
                    \E id \in ReadableWonDeals(cId) :
                        LET fromHistory == FirstClosedWon(crm.events[id], StagesOfRun)
                        IN  IF located[1].approximate
                            THEN /\ fromHistory = <<>>
                                 /\ crm.events[id].closedate = <<located[1].timestamp>>
                            ELSE fromHistory = <<located[1].timestamp>>

\* the earlier revision located a flagged and an unflagged timestamp
ContactFirstWitness ==
    /\ pc = "paths"
    /\ mcfJobStatus.conversionType = "closed_won"
    /\ getConversionTimestampClosedWon(crm, 1, StagesOfRun) # <<>>
    /\ getConversionTimestampClosedWon(crm, 1, StagesOfRun)[1].approximate
    /\ getConversionTimestampClosedWon(crm, 2, StagesOfRun) # <<>>
    /\ ~getConversionTimestampClosedWon(crm, 2, StagesOfRun)[1].approximate

----------------------------------------------------------------------------
(* Properties of the stored reports and the result endpoint *)

\* what the results file holds for the type: the report, or the response
\* given when there is none
StoredOrNone(all, conversionType) ==
    IF all[conversionType] = <<>> THEN NoResultsAvailable ELSE all[conversionType][1]

\* C28: after a run for (tenant, conversionType) completes, the result
\* endpoint returns that run's report in place of the previous one for
\* that key, never a merge of the two, and a run that ends in error leaves
\* the previously stored report for that key unchanged: the end of a run
\* that completes stores the report of the run's own buckets under its
\* key, the end of a run in error stores nothing, and a read of the run's
\* key after its end returns the run's report when it completed and what
\* was stored before it when it did not.
C28_ReportSupersededNotMerged ==
    [][ LET type == mcfJobStatus.conversionType
            report == ReportOf(pathCounts, totalConversions, mcfJobStatus)
        IN  /\ (pc = "running" /\ pc' = "done")
                  => IF mcfJobStatus'.completed
                     THEN allResults'[type] = <<report>>
                     ELSE allResults' = allResults
            /\ ( /\ pc = "done"
                 /\ mcfResponse' # mcfResponse
                 /\ mcfResponse'[1].conversionType = type )
                  => IF mcfJobStatus.completed
                     THEN mcfResponse'[1].response = report
                     ELSE mcfResponse'[1].response = StoredOrNone(allResults, type)
      ]_vars

\* a run with conversions completed over a results file that held reports
\* of earlier runs, and a read of its key returned the run's report
C28_Witness ==
    /\ pc = "done"
    /\ mcfJobStatus.completed
    /\ mcfResponse # <<>>
    /\ mcfResponse[1].conversionType = mcfJobStatus.conversionType
    /\ mcfResponse[1].response = mcfResults[1]
    /\ mcfResults[1].totalConversions > 0
    /\ \E t \in ConversionTypes :
          /\ t # mcfJobStatus.conversionType
          /\ allResults[t] # <<>>

----------------------------------------------------------------------------
(* Properties of the arguments of the two functions *)

\* the history is not in the order of its timestamps
OutOfOrder(history) == SortByTimestamp(history) # history

\* C30: buildConversionPath and computeMarketingContribution leave the
\* caller's history array unchanged: after the call it holds the same
\* entries in the same order with the same field values.
C30_CallerHistoryUnchanged ==
    [][ /\ sourceHistory' = sourceHistory
        /\ historyEntries' = historyEntries ]_vars

\* a history out of order was scored, its entries counted, and is still
\* out of order
C30_Witness ==
    /\ pc = "scored"
    /\ OutOfOrder(historyEntries)
    /\ contribution[1].totalChanges = Len(historyEntries)
    /\ Len(historyEntries) >= 2

----------------------------------------------------------------------------
(* Properties of the progress counters of an MCF run *)

\* the counters of the later status are not below those of the earlier
CountersNotBelow(later, earlier) ==
    /\ later.processed >= earlier.processed
    /\ later.converting >= earlier.converting

\* C31: while a run is in flight, the processed and converting counters
\* seen by successive status polls never decrease.
C31_ProgressNeverDecreases ==
    [][ (mcfJobStatus.running /\ mcfJobStatus'.running)
            => CountersNotBelow(mcfJobStatus', mcfJobStatus) ]_vars

(***************************************************************************)
(* getClosedWonStageIds with the age of the cached entry                   *)
(* (server.js 283-315).  The clock of this part counts half hours, so that *)
(* an entry can be younger than the hour, exactly one hour old, or older.  *)
(***************************************************************************)
MaxTicks == 4

CacheTtl == 2

PipelineStageSets == {{}, {"closedwon"}, {"closedwon", "signed"}}

\* what the pipelines request answers: <<>> when it fails, the closed-won
\* stage ids of all pipelines otherwise
PipelineReplies == {<<>>} \cup {<<stages>> : stages \in PipelineStageSets}

IsFresh_upToTheHour(entry, clock) ==
    /\ entry # <<>>
    /\ clock - entry[1].fetchedAt <= CacheTtl

IsFresh(entry, clock) ==
    /\ entry # <<>>
    /\ clock - entry[1].fetchedAt < CacheTtl

getClosedWonStageIdsAt(entry, clock, reply) ==
    IF IsFresh(entry, clock)
    THEN [stageIds |-> entry[1].stageIds, cache |-> entry, fetched |-> FALSE]
    ELSE IF reply # <<>>
         THEN [stageIds |-> reply[1],
               cache |-> <<[stageIds |-> reply[1], fetchedAt |-> clock]>>,
               fetched |-> TRUE]
         ELSE [stageIds |-> {}, cache |-> entry, fetched |-> TRUE]

CallGetClosedWonStageIds ==
    /\ pc = "stages"
    /\ \E reply \in PipelineReplies :
          LET call == getClosedWonStageIdsAt(stageCache, stageClock, reply)
          IN  /\ stageCache' = call.cache
              /\ stageCall' = <<[ at |-> stageClock,
                                 stageIds |-> call.stageIds,
                                 fetched |-> call.fetched,
                                 reply |-> IF call.fetched THEN reply ELSE <<>> ]>>
    /\ UNCHANGED <<pc, pathVars, mcfVars, contribVars, jobVars, callVars, locVars,
                   resultVars, stageClock, retryVars, runVars, hookVars, listVars>>

HalfHourPasses ==
    /\ pc = "stages"
    /\ stageClock < MaxTicks
    /\ stageClock' = stageClock + 1
    /\ UNCHANGED <<pc, pathVars, mcfVars, contribVars, jobVars, callVars, locVars,
                   resultVars, stageCache, stageCall, retryVars, runVars, hookVars, listVars>>

InitStages ==
    /\ pc = "stages"
    /\ sourceHistory = <<>>
    /\ conversionTimestamp = 0
    /\ lookbackDays = <<>>
    /\ path = NoPath
    /\ mcfJobStatus = NoJob
    /\ pathCounts = <<>>
    /\ totalConversions = 0
    /\ accumulated = EmptyBag
    /\ mcfResults = <<>>
    /\ pipelineCache = <<>>
    /\ historyEntries = <<>>
    /\ marketingSources = {}
    /\ contribution = NoScore
    /\ jobStatus = <<>>
    /\ portalConfig = NoPortalConfig
    /\ now = 1
    /\ batchRuns = <<>>
    /\ response = <<>>
    /\ apiReplies = <<>>
    /\ contactResult = <<>>
    /\ crm = NoCrm
    /\ conversions = <<>>
    /\ processedContacts = {}
    /\ allResults = NoResults
    /\ jobResult = <<>>
    /\ mcfResponse = <<>>
    /\ stageCache = <<>>
    /\ stageClock = 0
    /\ stageCall = <<>>
    /\ retryCall = <<>>
    /\ scoredWith = {}
    /\ hsHistory = <<>>
    /\ storedPercent = <<>>
    /\ workers = <<>>
    /\ listing = <<>>

NextStages == CallGetClosedWonStageIds \/ HalfHourPasses

SpecStages == InitStages /\ [][NextStages]_vars

(* Properties of the stage cache *)
EntryYoungerThanAnHour ==
    /\ stageCache # <<>>
    /\ stageClock - stageCache[1].fetchedAt < CacheTtl

\* C32: getClosedWonStageIds serves the cached stage set without an external
\* call while the entry is less than one hour old, refetches once it is one
\* hour old or older, and stores an entry only after a successful fetch: a
\* failed fetch returns the empty set and leaves the cache as it was.
C32_CacheServedForOneHour ==
    [][ (stageClock' = stageClock /\ stageCall' # <<>>)
            => LET call == stageCall'[1]
               IN  /\ EntryYoungerThanAnHour
                        => /\ ~call.fetched
                           /\ call.stageIds = stageCache[1].stageIds
                           /\ stageCache' = stageCache
                   /\ ~EntryYoungerThanAnHour => call.fetched
                   /\ (call.fetched /\ call.reply # <<>>)
                        => /\ call.stageIds = call.reply[1]
                           /\ stageCache' = <<[stageIds |-> call.reply[1],
                                               fetchedAt |-> stageClock]>>
                   /\ (call.fetched /\ call.reply = <<>>)
                        => /\ call.stageIds = {}
                           /\ stageCache' = stageCache ]_vars

\* an entry of half an hour was served, after an older one had been replaced
C32_Witness ==
    /\ stageCall # <<>>
    /\ ~stageCall[1].fetched
    /\ stageCache # <<>>
    /\ stageCache[1].fetchedAt >= CacheTtl
    /\ stageCall[1].at = stageCache[1].fetchedAt + (CacheTtl - 1)

(* Properties of the order of the input of buildConversionPath *)
DistinctTimestamps(history) ==
    \A i, j \in 1..Len(history) : i # j => TsNumber(history[i]) # TsNumber(history[j])

Reorderings(history) ==
    { [i \in 1..Len(history) |-> history[order[i]]] :
        order \in { o \in [1..Len(history) -> 1..Len(history)] :
                      \A i, j \in 1..Len(history) : i # j => o[i] # o[j] } }

\* the positions of the history by timestamp, positions of one timestamp in
\* the order of the input
ByTimestampThenPosition(history) ==
    CHOOSE order \in [1..Len(history) -> 1..Len(history)] :
        \A i, j \in 1..Len(history) :
            i < j => \/ TsNumber(history[order[i]]) < TsNumber(history[order[j]])
                     \/ /\ TsNumber(history[order[i]]) = TsNumber(history[order[j]])
                        /\ order[i] < order[j]

InTimestampOrder(history) ==
    [i \in 1..Len(history) |-> history[ByTimestampThenPosition(history)[i]]]

PathOfCall(history) ==
    IF pc = "built" THEN buildConversionPath(history, conversionTimestamp, lookbackDays)
    ELSE buildConversionPathFull(history, conversionTimestamp)

EligibleOfCall(history) ==
    IF pc = "built"
    THEN SelectSeq(history, LAMBDA e :
             /\ TsNumber(e) >= conversionTimestamp - LookbackOrDefault(lookbackDays) * DayMs
             /\ TsNumber(e) <= conversionTimestamp)
    ELSE SelectSeq(history, LAMBDA e : TsNumber(e) > 0 /\ TsNumber(e) <= conversionTimestamp)

\* C33: for histories whose timestamps are pairwise distinct,
\* buildConversionPath returns the same path for every permutation of the
\* input entries; entries with equal timestamps appear in the path in their
\* original relative order.
C33_PathIndependentOfInputOrder ==
    pc \in {"built", "builtFull"}
        => /\ DistinctTimestamps(sourceHistory)
                => \A other \in Reorderings(sourceHistory) : PathOfCall(other) = path
           /\ path = PathOfEntries(InTimestampOrder(EligibleOfCall(sourceHistory)))

\* three entries given latest first, all inside the window, made a path of
\* three steps
C33_Witness ==
    /\ pc = "built"
    /\ Len(sourceHistory) = 3
    /\ DistinctTimestamps(sourceHistory)
    /\ TsNumber(sourceHistory[1]) > TsNumber(sourceHistory[2])
    /\ TsNumber(sourceHistory[2]) > TsNumber(sourceHistory[3])
    /\ Len(path) = 3

(***************************************************************************)
(* hubspotApiWithRetry (server.js 262-277), one attempt and one second of  *)
(* a backoff timer at a time.                                              *)
(***************************************************************************)
MaxRetries == 4

\* what an attempt ends with: the status of the reply, or 0 for an error
\* without a status (the token refresh or the fetch itself failed)
AttemptOutcomes == ApiStatuses \cup {0}

\* Math.pow(2, attempt + 1) * 1000 ms, in seconds
BackoffSeconds(attempt) == 2 ^ (attempt + 1)

ShouldRetry_anyFailure(status, attempt, maxRetries) == attempt < maxRetries

\* e.status === 429 && attempt < maxRetries
ShouldRetry(status, attempt, maxRetries) == status = 429 /\ attempt < maxRetries

StartedCall(maxRetries) ==
    [ maxRetries |-> maxRetries, attempt |-> 0,
      state |-> IF 0 <= maxRetries THEN "calling" ELSE "returned",
      remaining |-> 0, slept |-> 0, log |-> <<>>, waits |-> <<>> ]

\* the attempt settles: hubspotApi returns or throws
AttemptSettles ==
    /\ retryCall # <<>>
    /\ retryCall[1].state = "calling"
    /\ \E status \in AttemptOutcomes :
          LET call == retryCall[1]
              logged == [call EXCEPT !.log = Append(@, status)]
          IN  retryCall' =
                IF hubspotApi(status).ok
                THEN <<[logged EXCEPT !.state = "returned"]>>
                ELSE IF ShouldRetry(status, call.attempt, call.maxRetries)
                     THEN <<[logged EXCEPT !.state = "waiting",
                                           !.remaining = BackoffSeconds(call.attempt),
                                           !.slept = 0]>>
                     ELSE <<[logged EXCEPT !.state = "thrown"]>>
    /\ UNCHANGED <<pc, pathVars, mcfVars, contribVars, jobVars, callVars, locVars,
                   resultVars, stageVars, runVars, hookVars, listVars>>

\* a second of the setTimeout passes
SecondPasses ==
    /\ retryCall # <<>>
    /\ retryCall[1].state = "waiting"
    /\ retryCall[1].remaining > 0
    /\ retryCall' = <<[retryCall[1] EXCEPT !.remaining = @ - 1, !.slept = @ + 1]>>
    /\ UNCHANGED <<pc, pathVars, mcfVars, contribVars, jobVars, callVars, locVars,
                   resultVars, stageVars, runVars, hookVars, listVars>>

\* the timer fires: continue, attempt++, the test of the loop
NextAttempt ==
    /\ retryCall # <<>>
    /\ retryCall[1].state = "waiting"
    /\ retryCall[1].remaining = 0
    /\ LET call == retryCall[1]
       IN  retryCall' = <<[call EXCEPT
                             !.attempt = @ + 1,
                             !.waits = Append(@, call.slept),
                             !.state = IF call.attempt + 1 <= call.maxRetries
                                       THEN "calling" ELSE "returned"]>>
    /\ UNCHANGED <<pc, pathVars, mcfVars, contribVars, jobVars, callVars, locVars,
                   resultVars, stageVars, runVars, hookVars, listVars>>

InitRetry ==
    /\ pc = "retry"
    /\ \E maxRetries \in 0..MaxRetries : retryCall = <<StartedCall(maxRetries)>>
    /\ sourceHistory = <<>>
    /\ conversionTimestamp = 0
    /\ lookbackDays = <<>>
    /\ path = NoPath
    /\ mcfJobStatus = NoJob
    /\ pathCounts = <<>>
    /\ totalConversions = 0
    /\ accumulated = EmptyBag
    /\ mcfResults = <<>>
    /\ pipelineCache = <<>>
    /\ historyEntries = <<>>
    /\ marketingSources = {}
    /\ contribution = NoScore
    /\ jobStatus = <<>>
    /\ portalConfig = NoPortalConfig
    /\ now = 1
    /\ batchRuns = <<>>
    /\ response = <<>>
    /\ apiReplies = <<>>
    /\ contactResult = <<>>
    /\ crm = NoCrm
    /\ conversions = <<>>
    /\ processedContacts = {}
    /\ allResults = NoResults
    /\ jobResult = <<>>
    /\ mcfResponse = <<>>
    /\ stageCache = <<>>
    /\ stageClock = 0
    /\ stageCall = <<>>
    /\ scoredWith = {}
    /\ hsHistory = <<>>
    /\ storedPercent = <<>>
    /\ workers = <<>>
    /\ listing = <<>>

NextRetry == AttemptSettles \/ SecondPasses \/ NextAttempt

SpecRetry == InitRetry /\ [][NextRetry]_vars

\* an attempt in flight settles and a timer set fires
SpecRetryLive == SpecRetry /\ WF_vars(NextRetry)

(* Properties of hubspotApiWithRetry *)
CallEnded == retryCall[1].state \in {"returned", "thrown"}

AttemptsAndWaitsAsDocumented ==
    LET call == retryCall[1]
        attempts == Len(call.log)
    IN  /\ attempts <= call.maxRetries + 1
        /\ call.maxRetries = RetryCap => attempts <= 4
        \* an attempt was made again only after a 429
        /\ \A i \in 1..(attempts - 1) : call.log[i] = 429
        \* the waits before the second, third, ... attempt
        /\ \A i \in 1..Len(call.waits) : call.waits[i] = 2 ^ i
        /\ call.state = "calling" => Len(call.waits) = attempts
        /\ call.state = "waiting" => call.slept + call.remaining = 2 ^ attempts
        \* the call ends by returning the reply or by throwing the last failure
        /\ call.state = "returned" => attempts > 0 /\ call.log[attempts] = 200
        /\ call.state = "thrown"
             => /\ call.log[attempts] # 200
                /\ call.log[attempts] = 429 => attempts = call.maxRetries + 1
        \* any other failure is thrown at once
        /\ (attempts > 0 /\ call.log[attempts] \notin {200, 429}) => call.state = "thrown"
        /\ (attempts = call.maxRetries + 1 /\ call.log[attempts] = 429)
             => call.state = "thrown"

\* C34: hubspotApiWithRetry makes at most maxRetries + 1 attempts (4 by
\* default) and then ends: it retries only after an HTTP 429 failure, waiting
\* 2^(attempt+1) seconds before the next attempt (2s, 4s, 8s), rethrows any
\* other failure at once, and rethrows the 429 after the last attempt.
C34_RetryEndsWithinCap == []AttemptsAndWaitsAsDocumented /\ <>CallEnded

\* the default call was rate limited four times and threw after 2, 4 and 8
\* seconds of waiting
C34_Witness ==
    /\ retryCall # <<>>
    /\ retryCall[1].maxRetries = RetryCap
    /\ retryCall[1].state = "thrown"
    /\ retryCall[1].log = <<429, 429, 429, 429>>
    /\ retryCall[1].waits = <<2, 4, 8>>

(* Properties of the counters of a contribution run *)
CountersAddUp(counters) ==
    counters.processed = counters.updated + counters.skippedNoHistory + counters.failed

\* C35: at every point where a status poll can observe a contribution run,
\* in flight or finished, processed = updated + skippedNoHistory + failed.
C35_ProcessedIsSumOfOutcomes ==
    /\ jobStatus # <<>> => CountersAddUp(jobStatus[1])
    /\ portalConfig.lastAnalysisResult # <<>>
         => CountersAddUp(portalConfig.lastAnalysisResult[1])
    /\ (response # <<>> /\ response.counters # <<>>)
         => CountersAddUp(response.counters[1])

\* a poll saw a run in flight after one contact had failed and one had been
\* updated
C35_Witness ==
    /\ response # <<>>
    /\ response.status = "running"
    /\ response.counters # <<>>
    /\ response.counters[1].failed = 1
    /\ response.counters[1].updated = 1
    /\ response.counters[1].processed = 2

(* Properties of the total of an MCF report *)

\* C36: in every MCF report totalConversions equals the sum of conversions
\* over all aggregated paths before threshold filtering: every conversion
\* counted in totalConversions is counted in exactly one bucket, also when
\* fetching a converting contact's history fails.
C36_TotalIsSumOfBuckets ==
    mcfResults # <<>> => mcfResults[1].totalConversions = SumConversions(pathCounts)

(* Properties of the start of a contribution run *)

\* a step of POST /api/calculate-contribution answered while no run was in
\* flight
PostAnsweredWhenIdle ==
    /\ ~AlreadyRunning(jobStatus)
    /\ response' # <<>>
    /\ response'.status \in {"started", "blocked"}
    /\ response' # response \/ Len(batchRuns') > Len(batchRuns)

\* C37: when no run is in flight, POST /api/calculate-contribution starts a
\* run exactly when the status endpoint reports analysisAllowed = true: after
\* a completed run a new run is refused until the marketing sources are saved
\* again, including when the sources were never saved and when the two
\* timestamps are equal.
C37_StartsExactlyWhenAllowed ==
    [][ PostAnsweredWhenIdle
            => (response'.status = "started"
                    <=> StatusResponse(jobStatus, portalConfig).analysisAllowed) ]_vars

(* Properties of the source set a contribution run scored with *)

\* C38: whenever the status endpoint reports the analysis as up to date
\* (analysisAllowed = false after a completed run), every contact processed
\* by that run was scored with the currently saved marketing source set,
\* also when the sources were saved while the run was in flight.
C38_UpToDateMeansScoredWithSavedSources ==
    LET reported == StatusResponse(jobStatus, portalConfig)
    IN  (jobStatus # <<>> /\ reported.status = "completed" /\ ~reported.analysisAllowed)
            => \A used \in scoredWith : used = getMarketingSources(portalConfig)

(***************************************************************************)
(* processContact called for one contact by two callers at a time: the     *)
(* loop of the batch run and the webhook handler, or the webhook handler   *)
(* twice (server.js 572-599, 771-784, 1240-1273).  Each call is in flight  *)
(* between its GET and its PATCH, and the contact's source changes in the  *)
(* CRM meanwhile.                                                          *)
(***************************************************************************)
MaxChanges == 2

\* parseFloat(percent.toFixed(4)), in ten-thousandths: the nearest multiple
\* of 0.0001, the larger one of two equally near
ToFixed4(marketingChanges, totalChanges) ==
    (2 * 10000 * marketingChanges + totalChanges) \div (2 * totalChanges)

\* const value = totalChanges === 0 ? 0 : parseFloat(percent.toFixed(4))
ValueOfScore(score) ==
    IF score.totalChanges = 0 THEN 0
    ELSE ToFixed4(score.marketingChanges, score.totalChanges)

CallerPairs == { <<"batch", "webhook">>, <<"webhook", "webhook">> }

IdleWorker(caller) ==
    [ caller |-> caller, phase |-> "idle", readNo |-> 0, read |-> <<>>, value |-> 0 ]

ReadsMade == Cardinality({ w \in 1..Len(workers) : workers[w].readNo > 0 })

\* hs_latest_source changes in the CRM
SourceChanges ==
    /\ pc = "hook"
    /\ Len(hsHistory) < MaxChanges
    /\ \E value \in { REFERRALS, OFFLINE } :
          hsHistory' = Append(hsHistory, [timestamp |-> <<Len(hsHistory) + 1>>,
                                          value |-> value])
    /\ UNCHANGED <<pc, pathVars, mcfVars, contribVars, jobVars, callVars, locVars,
                   resultVars, stageVars, retryVars, runVars, listVars, storedPercent, workers>>

\* the caller reaches processContact: the batch loop comes to the contact,
\* or a webhook event of a source change is taken up
CallProcessContact(w) ==
    /\ pc = "hook"
    /\ workers[w].phase = "idle"
    /\ workers[w].caller = "webhook" => hsHistory # <<>>
    /\ workers' = [workers EXCEPT ![w].phase = "get"]
    /\ UNCHANGED <<pc, pathVars, mcfVars, contribVars, jobVars, callVars, locVars,
                   resultVars, stageVars, retryVars, runVars, listVars, hsHistory, storedPercent>>

\* the GET of the history is answered, and the value is computed
GetHistory(w) ==
    /\ pc = "hook"
    /\ workers[w].phase = "get"
    /\ \E reply \in ApiStatuses :
          IF hubspotApi(reply).ok
          THEN LET score == computeMarketingContribution(
                                hsHistory, getMarketingSources(portalConfig))
               IN  workers' = [workers EXCEPT ![w].phase = "patch",
                                              ![w].readNo = ReadsMade + 1,
                                              ![w].read = hsHistory,
                                              ![w].value = ValueOfScore(score)]
          ELSE workers' = [workers EXCEPT ![w].phase = "failed"]
    /\ UNCHANGED <<pc, pathVars, mcfVars, contribVars, jobVars, callVars, locVars,
                   resultVars, stageVars, retryVars, runVars, listVars, hsHistory, storedPercent>>

\* the PATCH of the property is answered
PatchProperty(w) ==
    /\ pc = "hook"
    /\ workers[w].phase = "patch"
    /\ \E reply \in ApiStatuses :
          IF hubspotApi(reply).ok
          THEN /\ storedPercent' = <<workers[w].value>>
               /\ workers' = [workers EXCEPT ![w].phase = "done"]
          ELSE /\ workers' = [workers EXCEPT ![w].phase = "failed"]
               /\ UNCHANGED storedPercent
    /\ UNCHANGED <<pc, pathVars, mcfVars, contribVars, jobVars, callVars, locVars,
                   resultVars, stageVars, retryVars, runVars, listVars, hsHistory>>

WorkerStep == \E w \in 1..Len(workers) :
    CallProcessContact(w) \/ GetHistory(w) \/ PatchProperty(w)

InitHook ==
    /\ pc = "hook"
    /\ \E callers \in CallerPairs :
          workers = [w \in 1..2 |-> IdleWorker(callers[w])]
    /\ sourceHistory = <<>>
    /\ conversionTimestamp = 0
    /\ lookbackDays = <<>>
    /\ path = NoPath
    /\ mcfJobStatus = NoJob
    /\ pathCounts = <<>>
    /\ totalConversions = 0
    /\ accumulated = EmptyBag
    /\ mcfResults = <<>>
    /\ pipelineCache = <<>>
    /\ historyEntries = <<>>
    /\ marketingSources = {}
    /\ contribution = NoScore
    /\ jobStatus = <<>>
    /\ portalConfig = NoPortalConfig
    /\ now = 1
    /\ batchRuns = <<>>
    /\ response = <<>>
    /\ apiReplies = <<>>
    /\ contactResult = <<>>
    /\ crm = NoCrm
    /\ conversions = <<>>
    /\ processedContacts = {}
    /\ allResults = NoResults
    /\ jobResult = <<>>
    /\ mcfResponse = <<>>
    /\ stageCache = <<>>
    /\ stageClock = 0
    /\ stageCall = <<>>
    /\ retryCall = <<>>
    /\ scoredWith = {}
    /\ hsHistory = <<>>
    /\ storedPercent = <<>>
    /\ listing = <<>>

NextHook == SourceChanges \/ WorkerStep

SpecHook == InitHook /\ [][NextHook]_vars

(* Properties of concurrent recalculations of one contact *)
LatestReader ==
    CHOOSE w \in 1..Len(workers) :
        \A other \in 1..Len(workers) : workers[other].readNo <= workers[w].readNo

\* C39: when a webhook recalculation and a batch run, or two webhook
\* requests, process the same contact concurrently, the percentage stored for
\* the contact after both have finished is the score of the most recent
\* history either of them read: a value computed from an older read never
\* overwrites one computed from a newer read.
C39_LatestReadWins ==
    (\A w \in 1..Len(workers) : workers[w].phase = "done")
        => storedPercent = <<workers[LatestReader].value>>

(***************************************************************************)
(* The paging of the contribution batch run (server.js 745-789): batches   *)
(* of up to three pages of the contact listing, each batch processed       *)
(* before the next is fetched.                                             *)
(***************************************************************************)
MaxPages == 4

MaxPageSize == 2

BATCH_LIMIT == 300

\* the results of a page: each carries the id of a contact not listed before,
\* or no id
PageShapes == UNION { [1..n -> BOOLEAN] : n \in 0..MaxPageSize }

PushIds_pageOnly(contactIds, ids) == ids

\* for (const r of results) if (r?.id) contactIds.push(String(r.id))
PushIds(contactIds, ids) == contactIds \o ids

\* the ids of a page of the given shape, numbered on from the ids listed
RECURSIVE IdsOfPage(_, _)
IdsOfPage(shape, listed) ==
    IF shape = <<>> THEN <<>>
    ELSE IF Head(shape) THEN <<listed + 1>> \o IdsOfPage(Tail(shape), listed + 1)
    ELSE IdsOfPage(Tail(shape), listed)

StartedListing ==
    [ phase |-> "fetch", after |-> <<>>, contactIds |-> <<>>, batchPages |-> 0,
      index |-> 1, pages |-> 0, listed |-> <<>>, processedIds |-> <<>> ]

\* one pass of the inner while: a page is fetched and its ids are pushed
FetchPage ==
    /\ pc = "listing"
    /\ listing[1].phase = "fetch"
    /\ \E shape \in PageShapes, more \in BOOLEAN :
          LET run == listing[1]
              ids == IdsOfPage(shape, Len(run.listed))
              contactIds == PushIds(run.contactIds, ids)
              after == IF more /\ run.pages + 1 < MaxPages THEN <<run.pages + 1>> ELSE <<>>
              batchPages == run.batchPages + 1
              leaveInner == \/ after = <<>> \/ Len(shape) = 0
                            \/ ~(Len(contactIds) < BATCH_LIMIT /\ batchPages < 3)
          IN  listing' = <<[run EXCEPT
                  !.after = after,
                  !.contactIds = contactIds,
                  !.batchPages = batchPages,
                  !.pages = @ + 1,
                  !.listed = @ \o ids,
                  !.index = 1,
                  !.phase = IF ~leaveInner THEN "fetch"
                            ELSE IF Len(contactIds) = 0 THEN "finish"
                            ELSE "process"]>>
    /\ UNCHANGED <<pc, pathVars, mcfVars, contribVars, jobVars, callVars, locVars,
                   resultVars, stageVars, retryVars, runVars, hookVars>>

\* the request for a page throws into the catch of the run
FetchPageFails ==
    /\ pc = "listing"
    /\ listing[1].phase = "fetch"
    /\ listing' = <<[listing[1] EXCEPT !.phase = "error"]>>
    /\ jobStatus' = <<OnRunFailure(jobStatus[1], "listing")>>
    /\ UNCHANGED <<pc, pathVars, mcfVars, contribVars, portalConfig, now, batchRuns,
                   response, callVars, locVars, resultVars, stageVars, retryVars,
                   runVars, hookVars>>

\* one pass of the for over the batch; after the last, `if (!after) break`
\* or the next batch
ProcessListed ==
    /\ pc = "listing"
    /\ listing[1].phase = "process"
    /\ \E history \in BatchHistories, ok \in BOOLEAN :
          LET run == listing[1]
              result == computeMarketingContribution(history,
                                                     getMarketingSources(portalConfig))
              last == run.index = Len(run.contactIds)
          IN  /\ jobStatus' = <<CountContact(jobStatus[1], ok, result.totalChanges)>>
              /\ listing' = <<[run EXCEPT
                     !.processedIds = Append(@, run.contactIds[run.index]),
                     !.index = @ + 1,
                     !.phase = IF ~last THEN "process"
                               ELSE IF run.after = <<>> THEN "finish"
                               ELSE "fetch",
                     !.contactIds = IF last /\ run.after # <<>> THEN <<>> ELSE @,
                     !.batchPages = IF last /\ run.after # <<>> THEN 0 ELSE @]>>
    /\ UNCHANGED <<pc, pathVars, mcfVars, contribVars, portalConfig, now, batchRuns,
                   response, callVars, locVars, resultVars, stageVars, retryVars,
                   runVars, hookVars>>

\* the listing has ended: running = false, completedAt, the config write
FinishListing ==
    /\ pc = "listing"
    /\ listing[1].phase = "finish"
    /\ \E t \in ClockReads, saved \in BOOLEAN :
          LET ended == [jobStatus[1] EXCEPT !.running = FALSE, !.completedAt = <<t>>]
          IN  /\ now' = t
              /\ IF saved
                 THEN /\ jobStatus' = <<ended>>
                      /\ portalConfig' =
                            [portalConfig EXCEPT
                                !.lastAnalysisRun = <<t>>,
                                !.lastAnalysisResult = <<CountersOf(ended)>>]
                      /\ listing' = <<[listing[1] EXCEPT !.phase = "completed"]>>
                 ELSE /\ jobStatus' = <<OnRunFailure(ended, "config")>>
                      /\ UNCHANGED portalConfig
                      /\ listing' = <<[listing[1] EXCEPT !.phase = "error"]>>
    /\ UNCHANGED <<pc, pathVars, mcfVars, contribVars, batchRuns, response, callVars,
                   locVars, resultVars, stageVars, retryVars, runVars, hookVars>>

InitListing ==
    /\ pc = "listing"
    /\ jobStatus = <<StartedBatchJob>>
    /\ listing = <<StartedListing>>
    /\ sourceHistory = <<>>
    /\ conversionTimestamp = 0
    /\ lookbackDays = <<>>
    /\ path = NoPath
    /\ mcfJobStatus = NoJob
    /\ pathCounts = <<>>
    /\ totalConversions = 0
    /\ accumulated = EmptyBag
    /\ mcfResults = <<>>
    /\ pipelineCache = <<>>
    /\ historyEntries = <<>>
    /\ marketingSources = {}
    /\ contribution = NoScore
    /\ portalConfig = NoPortalConfig
    /\ now = 1
    /\ batchRuns = <<>>
    /\ response = <<>>
    /\ apiReplies = <<>>
    /\ contactResult = <<>>
    /\ crm = NoCrm
    /\ conversions = <<>>
    /\ processedContacts = {}
    /\ allResults = NoResults
    /\ jobResult = <<>>
    /\ mcfResponse = <<>>
    /\ stageCache = <<>>
    /\ stageClock = 0
    /\ stageCall = <<>>
    /\ retryCall = <<>>
    /\ scoredWith = {}
    /\ hsHistory = <<>>
    /\ storedPercent = <<>>
    /\ workers = <<>>

NextListing == FetchPage \/ FetchPageFails \/ ProcessListed \/ FinishListing

SpecListing == InitListing /\ [][NextListing]_vars

(* Properties of the paging of a contribution run *)

\* C40: a contribution batch run that completes has processed every contact
\* id returned by the paginated listing exactly once: processed at completion
\* equals the number of listed ids, with no contact skipped or repeated
\* across page and batch boundaries.
C40_EveryListedIdProcessedOnce ==
    (listing # <<>> /\ listing[1].phase = "completed")
        => /\ jobStatus[1].processed = Len(listing[1].listed)
           /\ listing[1].processedIds = listing[1].listed

\* a completed run whose listing took four pages, two batches, and listed
\* five contacts
C40_Witness ==
    /\ listing # <<>>
    /\ listing[1].phase = "completed"
    /\ listing[1].pages = 4
    /\ listing[1].batchPages = 1
    /\ Len(listing[1].listed) >= 5
    /\ jobStatus[1].processed = Len(listing[1].listed)

====
